---- MODULE Spec2Model ----
(***************************************************************************)
(* Smart-Search: the key normalizer, the in-memory trie, the durable       *)
(* prefix index (file_index table of file_search.db) and the image         *)
(* embedding cache with its inactivity timer.                              *)
(*                                                                         *)
(* Text is modelled character by character: a Python str is a sequence of  *)
(* one-character strings.  A character outside ASCII is written as its    *)
(* code point, "U+00E9" for e-acute, "U+03A3" for capital sigma.           *)
(***************************************************************************)
EXTENDS Integers, Sequences, FiniteSets, TLC

(***************************************************************************)
(* Bounds of the model.                                                    *)
(***************************************************************************)
\* records handed to the writers of the durable index in one behaviour
MaxRecords == 2
\* runs of index_files in one behaviour
MaxRuns == 2
\* records handed to build_trees in one behaviour
MaxTrieRecords == 2
\* length of the clock of the cache model, in inactivity windows
MaxWindows == 3
\* length of the texts handed to the key normalizer
MaxText == 2
\* load_embeddings calls in one behaviour of the concurrent cache model
MaxLoads == 2
\* threading.Timer objects alive at one time in that model
MaxTimers == 4

\* Python None, where a string stands in its place
None == "None"
\* a raised ValueError, where a string of characters stands in its place
Raise == <<"ValueError">>
\* the outcome of a call: the value returned, or an exception raised
Return(v) == [raised |-> FALSE, value |-> v]
Raised == [raised |-> TRUE, value |-> <<>>]

(***************************************************************************)
(* Characters.                                                             *)
(***************************************************************************)
AsciiLower ==
    {"a", "b", "c", "d", "e", "f", "g", "h", "i", "j", "k", "l", "m",
     "n", "o", "p", "q", "r", "s", "t", "u", "v", "w", "x", "y", "z"}

AsciiUpper ==
    {"A", "B", "C", "D", "E", "F", "G", "H", "I", "J", "K", "L", "M",
     "N", "O", "P", "Q", "R", "S", "T", "U", "V", "W", "X", "Y", "Z"}

Digits == {"0", "1", "2", "3", "4", "5", "6", "7", "8", "9"}

AsciiToLower ==
    ("A" :> "a") @@ ("B" :> "b") @@ ("C" :> "c") @@ ("D" :> "d") @@ ("E" :> "e") @@ ("F" :> "f")
    @@ ("G" :> "g") @@ ("H" :> "h") @@ ("I" :> "i") @@ ("J" :> "j") @@ ("K" :> "k") @@ ("L" :> "l")
    @@ ("M" :> "m") @@ ("N" :> "n") @@ ("O" :> "o") @@ ("P" :> "p") @@ ("Q" :> "q") @@ ("R" :> "r")
    @@ ("S" :> "s") @@ ("T" :> "t") @@ ("U" :> "u") @@ ("V" :> "v") @@ ("W" :> "w") @@ ("X" :> "x")
    @@ ("Y" :> "y") @@ ("Z" :> "z")

\* Letters outside ASCII that the model's inputs use: e-acute and its capital,
\* capital sigma, final sigma, sigma.  str.isalpha() is true of each.
EAcute == "U+00E9"
CapEAcute == "U+00C9"
CapSigma == "U+03A3"
FinalSigma == "U+03C2"
SmallSigma == "U+03C3"
OtherLower == {EAcute, FinalSigma, SmallSigma}
OtherUpper == {CapEAcute, CapSigma}

\* the grave accent, which a TLA+ string cannot hold
Backtick == "U+0060"

\* config.VALID_SYMBOLS: the 24 symbols Windows allows in a file name
VALID_SYMBOLS ==
    {" ", ".", "!", "#", "$", "%", "&", "'", "(", ")", "+", ",",
     "-", ";", "=", "@", "[", "]", "^", "_", Backtick, "{", "}", "~"}

\* config.SYMBOL_MAP
SYMBOL_MAP ==
    (" " :> <<"s", "p", "a", "c", "e">>)
    @@ ("!" :> <<"e", "x", "c", "l", "a", "m", "a", "t", "i", "o", "n">>)
    @@ ("#" :> <<"h", "a", "s", "h">>)
    @@ ("$" :> <<"d", "o", "l", "l", "a", "r">>)
    @@ ("%" :> <<"p", "e", "r", "c", "e", "n", "t">>)
    @@ ("&" :> <<"a", "m", "p", "e", "r", "s", "a", "n", "d">>)
    @@ ("'" :> <<"a", "p", "o", "s", "t", "r", "o", "p", "h", "e">>)
    @@ ("." :> <<"d", "o", "t">>)
    @@ ("(" :> <<"l", "p", "a", "r", "e", "n">>)
    @@ (")" :> <<"r", "p", "a", "r", "e", "n">>)
    @@ ("+" :> <<"p", "l", "u", "s">>)
    @@ ("," :> <<"c", "o", "m", "m", "a">>)
    @@ ("-" :> <<"d", "a", "s", "h">>)
    @@ (";" :> <<"s", "e", "m", "i", "c", "o", "l", "o", "n">>)
    @@ ("=" :> <<"e", "q", "u", "a", "l", "s">>)
    @@ ("@" :> <<"a", "t">>)
    @@ ("[" :> <<"l", "b", "r", "a", "c", "k", "e", "t">>)
    @@ ("]" :> <<"r", "b", "r", "a", "c", "k", "e", "t">>)
    @@ ("^" :> <<"c", "a", "r", "e", "t">>)
    @@ ("_" :> <<"u", "n", "d", "e", "r", "s", "c", "o", "r", "e">>)
    @@ (Backtick :> <<"b", "a", "c", "k", "t", "i", "c", "k">>)
    @@ ("{" :> <<"l", "b", "r", "a", "c", "e">>)
    @@ ("}" :> <<"r", "b", "r", "a", "c", "e">>)
    @@ ("~" :> <<"t", "i", "l", "d", "e">>)

\* config.DIGIT_MAP: str(i) -> "num" + str(i)
DIGIT_MAP == [d \in Digits |-> <<"n", "u", "m", d>>]

\* str.isalpha() of one character
IsAlpha(ch) == ch \in AsciiLower \cup AsciiUpper \cup OtherLower \cup OtherUpper

\* a character with a case (Unicode property Cased)
IsCased(ch) == IsAlpha(ch)

\* Unicode property Case_Ignorable, among the characters of the model
IsCaseIgnorable(ch) == ch \in {".", "'", "^", Backtick}

\* str.lower() of a one-character string
LowerChar(ch) ==
    IF ch \in AsciiUpper THEN AsciiToLower[ch]
    ELSE IF ch = CapEAcute THEN EAcute
    ELSE IF ch = CapSigma THEN SmallSigma
    ELSE ch

\* Python lowers a capital sigma to the final sigma when a cased character
\* precedes it and none follows it, case-ignorable characters skipped.
FinalSigmaAt(s, i) ==
    /\ \E j \in 1..(i - 1) :
          /\ IsCased(s[j])
          /\ \A k \in (j + 1)..(i - 1) : IsCaseIgnorable(s[k])
    /\ ~ \E j \in (i + 1)..Len(s) :
          /\ IsCased(s[j])
          /\ \A k \in (i + 1)..(j - 1) : IsCaseIgnorable(s[k])

\* str.lower() of a string
Lower(s) ==
    [i \in 1..Len(s) |->
        IF s[i] = CapSigma /\ FinalSigmaAt(s, i) THEN FinalSigma
        ELSE LowerChar(s[i])]

\* utils.helpers.check_letters, indexing.file_indexer.has_valid_characters and
\* auto_index.has_valid_characters: the same test, three times in the source
ALLOWED == AsciiLower \cup AsciiUpper \cup Digits \cup VALID_SYMBOLS

check_letters(s) == \A i \in 1..Len(s) : s[i] \in ALLOWED

has_valid_characters(filename) == \A i \in 1..Len(filename) : filename[i] \in ALLOWED

\* get_value without the branch of SYMBOL_MAP
get_value_no_symbols(ch) ==
    IF IsAlpha(ch) THEN <<LowerChar(ch)>>
    ELSE IF ch \in DOMAIN DIGIT_MAP THEN DIGIT_MAP[ch]
    ELSE Raise
\* utils.helpers.get_value: the canonical key of one character, Raise when
\* the character has none (ValueError)
get_value(ch) ==
    IF IsAlpha(ch) THEN <<LowerChar(ch)>>
    ELSE IF ch \in DOMAIN DIGIT_MAP THEN DIGIT_MAP[ch]
    ELSE IF ch \in DOMAIN SYMBOL_MAP THEN SYMBOL_MAP[ch]
    ELSE Raise

RECURSIVE Concat(_)
Concat(ss) == IF ss = <<>> THEN <<>> ELSE Head(ss) \o Concat(Tail(ss))

\* the loop of build_search_index, index_to_file_search_db and search_db:
\* the join of get_value(char) for char in text.lower(); Raise when get_value raises
NormalizedKey(text) ==
    LET low == Lower(text)
    IN  IF \E i \in 1..Len(low) : get_value(low[i]) = Raise THEN Raise
        ELSE Concat([i \in 1..Len(low) |-> get_value(low[i])])

\* utils.helpers.clean_query: keep the allowed characters, then lower (None
\* is read as the empty string, which stands for it here)
RECURSIVE KeepAllowed(_)
KeepAllowed(s) ==
    IF s = <<>> THEN <<>>
    ELSE IF Head(s) \in ALLOWED THEN <<Head(s)>> \o KeepAllowed(Tail(s))
    ELSE KeepAllowed(Tail(s))

\* clean_query without the .lower() that ends it
clean_query_no_lower(s) == KeepAllowed(s)
clean_query(s) == Lower(KeepAllowed(s))

\* (s or "") of clean_query: an argument is <<>> for None, else <<s>>
OrEmpty(arg) == IF arg = <<>> THEN <<>> ELSE arg[1]

\* s starts with p: Python str.startswith, and SQLite LIKE of p followed by
\* the percent wildcard, on keys that hold no wildcard and are lower case
StartsWith(s, p) == Len(p) <= Len(s) /\ SubSeq(s, 1, Len(p)) = p

(***************************************************************************)
(* Records and categories.                                                 *)
(***************************************************************************)
Folder == <<"f", "o", "l", "d", "e", "r">>
Unknown == <<"u", "n", "k", "n", "o", "w", "n">>

\* models.data_models.FileData(name, path, type); to_dict and from_dict carry
\* the four fields unchanged, so one record stands for the object and its dict
FileData(name, path, type) ==
    [file_name |-> name, file_path |-> path, file_type |-> type, length |-> Len(name)]

\* os.path.join(root, name): a path is the directory and the name in it
JoinPath(dir, name) == <<dir, name>>

SetMax(S) == CHOOSE m \in S : \A x \in S : x <= m

\* os.path.splitext(name)[1]: from the last dot on, unless only dots precede it
SplitExt(name) ==
    LET dots == {i \in 1..Len(name) : name[i] = "."}
    IN  IF dots = {} THEN <<>>
        ELSE LET d == SetMax(dots)
             IN  IF \E j \in 1..(d - 1) : name[j] # "."
                 THEN SubSeq(name, d, Len(name))
                 ELSE <<>>

\* str.strip('.')
RECURSIVE StripDots(_)
StripDots(s) ==
    IF s = <<>> THEN <<>>
    ELSE IF Head(s) = "." THEN StripDots(Tail(s))
    ELSE IF s[Len(s)] = "." THEN StripDots(SubSeq(s, 1, Len(s) - 1))
    ELSE s

\* collect_entries: os.path.splitext(f)[1].lower().strip('.') or 'unknown'
EntryType(name) ==
    LET ext == StripDots(Lower(SplitExt(name)))
    IN  IF ext = <<>> THEN Unknown ELSE ext

IMAGE_TYPES ==
    {<<"p", "n", "g">>, <<"j", "p", "g">>, <<"j", "p", "e", "g">>, <<"g", "i", "f">>,
     <<"b", "m", "p">>, <<"w", "e", "b", "p">>, <<"i", "m", "a", "g", "e">>}

VIDEO_TYPES ==
    {<<"m", "p", "4">>, <<"m", "k", "v">>, <<"m", "o", "v">>, <<"a", "v", "i">>,
     <<"v", "i", "d", "e", "o">>}

AUDIO_TYPES ==
    {<<"m", "p", "3">>, <<"w", "a", "v">>, <<"f", "l", "a", "c">>, <<"m", "4", "a">>,
     <<"a", "u", "d", "i", "o">>}

ARCHIVE_TYPES ==
    {<<"z", "i", "p">>, <<"7", "z">>, <<"r", "a", "r">>, <<"t", "a", "r">>,
     <<"g", "z">>}

DOCUMENT_TYPES ==
    {<<"p", "d", "f">>, <<"p", "p", "t">>, <<"p", "p", "t", "x">>, <<"x", "l", "s">>,
     <<"x", "l", "s", "x">>, <<"c", "s", "v">>, <<"m", "d">>, <<"t", "x", "t">>,
     <<"r", "t", "f">>, <<"d", "o", "c">>, <<"d", "o", "c", "x">>}

AUTO_IMAGE_TYPES ==
    {<<"p", "n", "g">>, <<"j", "p", "g">>, <<"j", "p", "e", "g">>, <<"g", "i", "f">>,
     <<"b", "m", "p">>, <<"w", "e", "b", "p">>, <<"t", "i", "f", "f">>}

AUTO_VIDEO_TYPES ==
    {<<"m", "p", "4">>, <<"m", "k", "v">>, <<"m", "o", "v">>, <<"a", "v", "i">>,
     <<"w", "m", "v">>, <<"f", "l", "v">>, <<"w", "e", "b", "m">>}

AUTO_AUDIO_TYPES ==
    {<<"m", "p", "3">>, <<"w", "a", "v">>, <<"f", "l", "a", "c">>, <<"m", "4", "a">>,
     <<"a", "a", "c">>, <<"o", "g", "g">>}

\* search.file_search.get_file_category
get_file_category(file_type) ==
    LET t == Lower(file_type)
    IN  IF t = Folder THEN "folder"
        ELSE IF t \in IMAGE_TYPES THEN "image"
        ELSE IF t \in VIDEO_TYPES THEN "video"
        ELSE IF t \in AUDIO_TYPES THEN "audio"
        ELSE IF t \in ARCHIVE_TYPES THEN "archive"
        ELSE IF t \in DOCUMENT_TYPES THEN "document"
        ELSE "file"

\* auto_index.get_file_category
auto_get_file_category(file_type) ==
    IF file_type = <<>> THEN "file"
    ELSE LET t == Lower(file_type)
         IN  IF t = Folder THEN "folder"
             ELSE IF t \in AUTO_IMAGE_TYPES THEN "image"
             ELSE IF t \in AUTO_VIDEO_TYPES THEN "video"
             ELSE IF t \in AUTO_AUDIO_TYPES THEN "audio"
             ELSE IF t \in ARCHIVE_TYPES THEN "archive"
             ELSE IF t \in DOCUMENT_TYPES THEN "document"
             ELSE "file"

\* file_data.file_type.lower() if file_data.file_type else 'unknown'
FileExtension(file_type) ==
    IF file_type = <<>> THEN Unknown ELSE Lower(file_type)

(***************************************************************************)
(* The durable prefix index: table file_index of file_search.db.           *)
(* rows is the table in rowid order.  files_json is the stored JSON array, *)
(* each element an object (a record), a string (the JSON text of a record, *)
(* what json_array makes of a bound text parameter) or a nested array of   *)
(* one record (what json_insert appends when handed json of an array).     *)
(***************************************************************************)
JObject(rec) == [kind |-> "object", value |-> <<rec>>]
JString(rec) == [kind |-> "string", value |-> <<rec>>]
JArray(rec) == [kind |-> "array", value |-> <<rec>>]

RowIndex(rows, key) == {i \in 1..Len(rows) : rows[i].prefix = key}

\* the upsert with the conflict clause replacing the stored array instead of
\* appending to it
UpsertBuildReplace(rows, e) ==
    IF \E i \in 1..Len(rows) : rows[i].prefix = e.key
    THEN LET i == CHOOSE i \in 1..Len(rows) : rows[i].prefix = e.key
         IN  [rows EXCEPT ![i].files_json = <<[kind |-> "object", value |-> <<e.rec>>]>>]
    ELSE Append(rows, [prefix |-> e.key, file_extension |-> e.ext,
                       file_category |-> e.cat,
                       files_json |-> <<[kind |-> "object", value |-> <<e.rec>>]>>])

\* INSERT ... VALUES (?, ?, ?, ?) ON CONFLICT(prefix) DO UPDATE SET
\* files_json = json_insert(files_json, '$[#]', json(?)), with both JSON
\* parameters json.dumps([file_data.to_dict()])
UpsertBuild(rows, e) ==
    IF RowIndex(rows, e.key) # {}
    THEN LET i == CHOOSE i \in RowIndex(rows, e.key) : TRUE
         IN  [rows EXCEPT ![i].files_json = Append(@, JArray(e.rec))]
    ELSE Append(rows, [prefix |-> e.key, file_extension |-> e.ext,
                       file_category |-> e.cat, files_json |-> <<JObject(e.rec)>>])

\* cursor.executemany over one batch, then conn.commit()
RECURSIVE Flush(_, _)
Flush(rows, batch) ==
    IF batch = <<>> THEN rows ELSE Flush(UpsertBuild(rows, Head(batch)), Tail(batch))

\* the store after cursor.executemany or conn.commit raised on batch: the
\* transaction is never committed, and none of its rows is kept once the
\* connection is dropped
AbortedFlushKept(rows, batch) == Flush(rows, batch)
AbortedFlush(rows, batch) == rows

\* the store takes every commit (<<>>), or takes k commits and raises
\* sqlite3.Error on the next executemany (<<k>>)
NoFault == <<>>
Fails(commits) == commits # NoFault /\ commits[1] = 0
After(commits) == IF commits = NoFault THEN NoFault ELSE <<commits[1] - 1>>

\* the loop of build_search_index from index idx on: rows are the committed
\* rows, batch the pending tuples; a ValueError of get_value or an error of
\* the store leaves the loop with the pending batch never committed.  calls
\* are the idx of the calls progress_callback(idx, total), made when a
\* callback was given.
RECURSIVE BuildLoop(_, _, _, _, _, _)
BuildLoop(rows, batch, file_list, batch_size, idx, commits) ==
    IF file_list = <<>>
    THEN IF batch = <<>> THEN [rows |-> rows, raised |-> FALSE, calls |-> <<>>]
         ELSE IF Fails(commits)
         THEN [rows |-> AbortedFlush(rows, batch), raised |-> TRUE, calls |-> <<>>]
         ELSE [rows |-> Flush(rows, batch), raised |-> FALSE, calls |-> <<>>]
    ELSE LET file_data == Head(file_list)
         IN  IF file_data.file_name = <<>>
             THEN BuildLoop(rows, batch, Tail(file_list), batch_size, idx + 1, commits)
             ELSE IF NormalizedKey(file_data.file_name) = Raise
             THEN [rows |-> rows, raised |-> TRUE, calls |-> <<>>]
             ELSE LET file_extension == FileExtension(file_data.file_type)
                      e == [key |-> NormalizedKey(file_data.file_name),
                            ext |-> file_extension,
                            cat |-> get_file_category(file_extension),
                            rec |-> file_data]
                      nb == Append(batch, e)
                      called == IF idx % 100 = 0 THEN <<idx>> ELSE <<>>
                  IN  IF Len(nb) >= batch_size
                      THEN IF Fails(commits)
                           THEN [rows |-> AbortedFlush(rows, nb), raised |-> TRUE,
                                 calls |-> <<>>]
                           ELSE LET rest == BuildLoop(Flush(rows, nb), <<>>,
                                                Tail(file_list), batch_size,
                                                idx + 1, After(commits))
                                IN  [rest EXCEPT !.calls = called \o @]
                      ELSE LET rest == BuildLoop(rows, nb, Tail(file_list),
                                           batch_size, idx + 1, commits)
                           IN  [rest EXCEPT !.calls = called \o @]

\* search.file_search.build_search_index on the table as it stands (empty
\* when initiate_db has just created it)
build_search_index(rows, file_list, batch_size, commits) ==
    BuildLoop(rows, <<>>, file_list, batch_size, 0, commits)

\* the INSERT of index_to_file_search_db: VALUES (?, ?, ?, json_array(?)) ON
\* CONFLICT(prefix) DO UPDATE SET files_json = json_insert(files_json,
\* '$[#]', json(?)), with both JSON parameters json.dumps(file_data.to_dict())
UpsertAuto(rows, e) ==
    IF RowIndex(rows, e.key) # {}
    THEN LET i == CHOOSE i \in RowIndex(rows, e.key) : TRUE
         IN  [rows EXCEPT ![i].files_json = Append(@, JObject(e.rec))]
    ELSE Append(rows, [prefix |-> e.key, file_extension |-> e.ext,
                       file_category |-> e.cat, files_json |-> <<JString(e.rec)>>])

\* code-point order of the characters a row key can hold; SQLite compares
\* TEXT keys byte by byte, which on UTF-8 is code-point order
KeyCharOrder ==
    <<"0", "1", "2", "3", "4", "5", "6", "7", "8", "9",
      "a", "b", "c", "d", "e", "f", "g", "h", "i", "j", "k", "l", "m",
      "n", "o", "p", "q", "r", "s", "t", "u", "v", "w", "x", "y", "z",
      EAcute, FinalSigma, SmallSigma>>

CharRank(ch) == CHOOSE i \in 1..Len(KeyCharOrder) : KeyCharOrder[i] = ch

RECURSIVE KeyLess(_, _)
KeyLess(a, b) ==
    IF b = <<>> THEN FALSE
    ELSE IF a = <<>> THEN TRUE
    ELSE IF Head(a) = Head(b) THEN KeyLess(Tail(a), Tail(b))
    ELSE CharRank(Head(a)) < CharRank(Head(b))

\* the seven categories in the order idx_category(file_category, prefix)
\* holds them
CategoryOrder == <<"archive", "audio", "document", "file", "folder", "image", "video">>

RowLess(r1, r2) == KeyLess(r1.prefix, r2.prefix)

\* the rows of one category as idx_category holds them: by prefix
CategoryRows(rows, cat) ==
    LET InCat(r) == r.file_category = cat
    IN  SortSeq(SelectSeq(rows, InCat), RowLess)

\* SELECT files_json FROM file_index WHERE prefix LIKE ? [AND file_category
\* IN (...)] LIMIT ?: the table scan runs in rowid order, the filtered search
\* runs over idx_category, category by category
SelectRows(rows, prefix, limit, categories) ==
    LET Match(r) == StartsWith(r.prefix, prefix)
        wanted == {categories[i] : i \in 1..Len(categories)}
        scan == IF categories = <<>>
                THEN rows
                ELSE Concat([c \in 1..Len(CategoryOrder) |->
                        IF CategoryOrder[c] \in wanted
                        THEN CategoryRows(rows, CategoryOrder[c])
                        ELSE <<>>])
        hits == SelectSeq(scan, Match)
    IN  IF limit < 0 \/ limit >= Len(hits) THEN hits ELSE SubSeq(hits, 1, limit)

\* the deserialising loop of search_db: an object is one record, a nested
\* array is flattened, anything else is passed over; the loop returns as soon
\* as limit records are collected, tested after each element
RECURSIVE Collect(_, _, _)
Collect(items, files, limit) ==
    IF items = <<>> THEN files
    ELSE LET item == Head(items)
             got == IF item.kind \in {"object", "array"}
                    THEN files \o item.value
                    ELSE files
         IN  IF Len(got) >= limit THEN got ELSE Collect(Tail(items), got, limit)

\* search.file_search.search_db on the store as it stands: db is "nofile"
\* (no file_search.db), "notable" (the file without the file_index table) or
\* "ready".  An empty query stands for None too, an empty categories list for
\* None too: the code tests both for truth only.  get_value raises ValueError,
\* the SELECT raises OperationalError when the table is missing.
search_db(db, rows, query, limit, categories) ==
    IF query = <<>> THEN Return(<<>>)
    ELSE IF NormalizedKey(query) = Raise THEN Raised
    ELSE IF db = "nofile" THEN Return(<<>>)
    ELSE IF db = "notable" THEN Raised
    ELSE LET results == SelectRows(rows, NormalizedKey(query), limit, categories)
         IN  IF results = <<>> THEN Return(<<>>)
             ELSE Return(Collect(Concat([i \in 1..Len(results) |-> results[i].files_json]),
                                 <<>>, limit))

\* config.DEFAULT_SEARCH_LIMIT
DEFAULT_SEARCH_LIMIT == 200

\* api.backend_api._file_to_dict
file_to_dict(fd) ==
    [name |-> fd.file_name, path |-> fd.file_path, type |-> fd.file_type,
     length |-> fd.length]

\* _file_search without its try/except: an exception of search_db leaves the call
file_search_no_try(db, rows, query, category, limit) ==
    LET q == clean_query(query)
    IN  IF q = <<>> THEN Return(<<>>)
        ELSE LET categories == IF category = None \/ category = "" THEN <<>>
                               ELSE <<category>>
                 matches == search_db(db, rows, q, limit, categories)
             IN  IF matches.raised THEN Raised
                 ELSE Return([i \in 1..Len(matches.value) |->
                                file_to_dict(matches.value[i])])

\* SearchAPI._file_search: the query is cleaned, search_db runs inside
\* try/except, any exception gives the empty list
file_search(db, rows, query, category, limit) ==
    LET q == clean_query(query)
    IN  IF q = <<>> THEN Return(<<>>)
        ELSE LET categories == IF category = None \/ category = "" THEN <<>>
                               ELSE <<category>>
                 matches == search_db(db, rows, q, limit, categories)
             IN  IF matches.raised THEN Return(<<>>)
                 ELSE Return([i \in 1..Len(matches.value) |->
                                file_to_dict(matches.value[i])])

\* SearchAPI.search for the search types that end in _file_search: 'normal'
\* and every type that is neither 'image' nor 'text'.  limit is <<>> for
\* None and <<n>> for the number n.
api_search(db, rows, query, search_type, category, limit) ==
    LET lim == IF limit = <<>> THEN DEFAULT_SEARCH_LIMIT ELSE limit[1]
    IN  file_search(db, rows, query, category, lim)

\* search_db with sqlite3.connect moved before the test of os.path.exists:
\* the connect creates the missing file
search_db_store_connect_first(db, query) ==
    IF query # <<>> /\ NormalizedKey(query) # Raise /\ db = "nofile"
    THEN "notable"
    ELSE db

\* search_db opens file_search.db only after os.path.exists(db_path) has
\* answered true: the call creates no file and writes nothing
search_db_store(db, query) == db

\* config.SKIP_FILES
SKIP_FILES ==
    {<<"p", "a", "g", "e", "f", "i", "l", "e", ".", "s", "y", "s">>,
     <<"h", "i", "b", "e", "r", "f", "i", "l", ".", "s", "y", "s">>,
     <<"s", "w", "a", "p", "f", "i", "l", "e", ".", "s", "y", "s">>}

\* indexing.file_indexer.collect_entries over the files of one directory,
\* each of them visible and readable: the skip-file names and the names with
\* a character outside the permitted set are dropped
RECURSIVE collect_entries(_, _)
collect_entries(root_dir, files) ==
    IF files = <<>> THEN <<>>
    ELSE LET f == Head(files)
             rest == collect_entries(root_dir, Tail(files))
         IN  IF Lower(f) \in SKIP_FILES THEN rest
             ELSE IF ~has_valid_characters(f) THEN rest
             ELSE <<FileData(f, JoinPath(root_dir, f), EntryType(f))>> \o rest

\* the default batch_size of build_search_index, which index_files leaves as is
BATCH_SIZE == 5000

\* a call progress_callback(stage, message) and a call
\* progress_callback(idx, total)
StageCall(stage) == [stage |-> <<stage>>, count |-> <<>>]
CountCall(idx, total) == [stage |-> <<>>, count |-> <<idx, total>>]

\* indexing.file_indexer.index_files with a progress_callback: collect_entries,
\* then build_search_index, inside try/except.  fault.scan is an error raised
\* out of collect_entries, fault.commits what the store takes.  The value is
\* the table, whether initiate_db ran, the status and count returned and the
\* calls of progress_callback in order.
index_files(rows, root_dir, files, fault) ==
    IF fault.scan
    THEN [rows |-> rows, initiated |-> FALSE, status |-> "error", count |-> 0,
          progress |-> <<StageCall("scanning"), StageCall("error")>>]
    ELSE LET entries == collect_entries(root_dir, files)
             total == Len(entries)
             built == build_search_index(rows, entries, BATCH_SIZE, fault.commits)
             reported == <<StageCall("scanning"), StageCall("building")>>
                         \o [i \in 1..Len(built.calls) |->
                                CountCall(built.calls[i], total)]
         IN  IF built.raised
             THEN [rows |-> built.rows, initiated |-> TRUE, status |-> "error",
                   count |-> 0, progress |-> Append(reported, StageCall("error"))]
             ELSE [rows |-> built.rows, initiated |-> TRUE, status |-> "success",
                   count |-> total,
                   progress |-> Append(reported, StageCall("complete"))]

\* auto_index: ext = os.path.splitext(basename)[1].lower();
\* file_type = ext.strip('.') if ext else 'unknown'
AutoType(name) ==
    LET ext == Lower(SplitExt(name))
    IN  IF ext = <<>> THEN Unknown ELSE StripDots(ext)

\* auto_index.index_to_file_search_db: the store after the call and the
\* boolean returned.  sqlite3.connect creates file_search.db when it is
\* missing; without the file_index table the INSERT raises and the except
\* clause returns False.
index_to_file_search_db(db, rows, file_data) ==
    IF ~has_valid_characters(file_data.file_name)
    THEN [db |-> db, rows |-> rows, ok |-> FALSE]
    ELSE IF NormalizedKey(file_data.file_name) = Raise
    THEN [db |-> db, rows |-> rows, ok |-> FALSE]
    ELSE IF db # "ready"
    THEN [db |-> "notable", rows |-> rows, ok |-> FALSE]
    ELSE LET e == [key |-> NormalizedKey(file_data.file_name),
                   ext |-> FileExtension(file_data.file_type),
                   cat |-> auto_get_file_category(file_data.file_type),
                   rec |-> file_data]
         IN  [db |-> db, rows |-> UpsertAuto(rows, e), ok |-> TRUE]

(***************************************************************************)
(* The in-memory trie and its documents on disk.                           *)
(***************************************************************************)
\* file_search.all_names: the keys of the roots
all_names ==
    {<<c>> : c \in AsciiLower}
    \cup {DIGIT_MAP[d] : d \in DOMAIN DIGIT_MAP}
    \cup {SYMBOL_MAP[s] : s \in DOMAIN SYMBOL_MAP}

\* models.data_models.Tree(value): no files, every child attribute None.
\* children holds the attributes that are not None; loaded is the _loaded
\* attribute search_tree sets, absent on a new object
Tree(value) ==
    [value |-> value, files |-> <<>>, children |-> <<>>, loaded |-> FALSE]

\* setattr(node, letter, child)
SetChild(node, letter, child) ==
    [node EXCEPT !.children = (letter :> child) @@ node.children]

\* Tree.to_dict: value, files and the children that are set; _loaded is not
\* written
RECURSIVE Tree_to_dict(_)
Tree_to_dict(node) ==
    [value |-> node.value, files |-> node.files,
     children |-> [k \in DOMAIN node.children |-> Tree_to_dict(node.children[k])]]

\* Tree.from_dict: a new object for every node of the document
RECURSIVE Tree_from_dict(_)
Tree_from_dict(data) ==
    [value |-> data.value, files |-> data.files,
     children |-> [k \in DOMAIN data.children |-> Tree_from_dict(data.children[k])],
     loaded |-> FALSE]

\* load_tree(name): the trees after the call and the boolean returned.  docs
\* maps a root key to <<>> when <name>tree.json is missing, to <<document>>
\* when it is there
load_tree(ts, docs, name) ==
    IF docs[name] = <<>> THEN [trees |-> ts, ok |-> FALSE]
    ELSE [trees |-> [ts EXCEPT ![name] = Tree_from_dict(docs[name][1])], ok |-> TRUE]

\* load_trees(): every root with a document is replaced by it
load_trees(ts, docs) ==
    [name \in all_names |->
        IF docs[name] = <<>> THEN ts[name] ELSE Tree_from_dict(docs[name][1])]

\* clear_trees(): every root is a new Tree
clear_trees == [name \in all_names |-> Tree(name)]

\* save_trees(): a document is written for each root that has files of its
\* own; the documents of the other roots stay as they are
save_trees(ts, docs) ==
    [name \in all_names |->
        IF Len(ts[name].files) > 0 THEN <<Tree_to_dict(ts[name])>> ELSE docs[name]]

\* build_trees, the loop over positions 1.. of the name (positions 2.. here):
\* letters[i] is get_value of the character, root_tree the node reached
RECURSIVE Walk(_, _, _, _)
Walk(root_tree, letters, i, files) ==
    IF i > Len(letters) THEN root_tree
    ELSE LET letter == letters[i]
         IN  IF letter \notin DOMAIN root_tree.children
             THEN LET new_node == [Tree(letter) EXCEPT !.files = Append(@, files)]
                  IN  SetChild(root_tree, letter, Walk(new_node, letters, i + 1, files))
             ELSE LET node == root_tree.children[letter]
                      held == [node EXCEPT !.files = Append(@, files)]
                  IN  IF i = Len(letters)
                      THEN SetChild(root_tree, letter, held)
                      ELSE SetChild(root_tree, letter, Walk(held, letters, i + 1, files))

\* build_trees(file_list): the trees after the call, and whether it raised
\* (the empty name passes check_letters and file_name_list[0] raises)
RECURSIVE build_trees(_, _)
build_trees(ts, file_list) ==
    IF file_list = <<>> THEN [trees |-> ts, raised |-> FALSE]
    ELSE LET files == Head(file_list)
             name == files.file_name
         IN  IF ~check_letters(name) THEN build_trees(ts, Tail(file_list))
             ELSE IF name = <<>> THEN [trees |-> ts, raised |-> TRUE]
             ELSE LET letters == [i \in 1..Len(name) |-> get_value(LowerChar(name[i]))]
                      first_letter == letters[1]
                      root_tree == ts[first_letter]
                      grown == IF Len(name) = 1
                               THEN [root_tree EXCEPT !.files = Append(@, files)]
                               ELSE Walk(root_tree, letters, 2, files)
                  IN  build_trees([ts EXCEPT ![first_letter] = grown], Tail(file_list))

\* search_tree, the loop over prefix[1:] and the return
RECURSIVE Descend(_, _)
Descend(current_node, rest) ==
    IF rest = <<>> THEN Return(current_node.files)
    ELSE LET letter == get_value(LowerChar(Head(rest)))
         IN  IF letter = Raise THEN Raised
             ELSE IF letter \notin DOMAIN current_node.children THEN Return(<<>>)
             ELSE Descend(current_node.children[letter], Tail(rest))

\* search_tree(prefix): the trees after the call (a root that has no files
\* and no _loaded mark is replaced by its document, when there is one) and
\* the outcome
search_tree(ts, docs, prefix) ==
    IF prefix = <<>> THEN [trees |-> ts, result |-> Return(<<>>)]
    ELSE LET first_letter == get_value(LowerChar(prefix[1]))
         IN  IF first_letter = Raise THEN [trees |-> ts, result |-> Raised]
             ELSE IF first_letter \notin all_names
             THEN [trees |-> ts, result |-> Return(<<>>)]
             ELSE LET lazy == ts[first_letter].files = <<>> /\ ~ts[first_letter].loaded
                      got == IF lazy THEN load_tree(ts, docs, first_letter)
                             ELSE [trees |-> ts, ok |-> FALSE]
                      after == IF got.ok
                               THEN [got.trees EXCEPT ![first_letter].loaded = TRUE]
                               ELSE ts
                  IN  [trees |-> after,
                       result |-> Descend(after[first_letter], Tail(prefix))]

(***************************************************************************)
(* The image embedding cache: the pure parts.                              *)
(***************************************************************************)
\* image_search.UNLOAD_DELAY, in seconds
UNLOAD_DELAY == 120

\* An embedding is a vector of two integers along one axis, so that its norm
\* and the normalised vector are integers too.
Abs(x) == IF x < 0 THEN 0 - x ELSE x
Norm(v) == Abs(v[1]) + Abs(v[2])
\* lines 54-55: each row divided by its norm
Normalize(v) == <<v[1] \div Norm(v), v[2] \div Norm(v)>>

\* lines 139-143: the normalised CLIP embedding of the query text
encode_text(query) == IF query = "cat" THEN <<1, 0>> ELSE <<0, 1>>

\* lines 146-149: the paths by falling similarity, limit of them at most
\* (the stores of the model hold no two rows of equal similarity)
Rank(emb, paths, query, limit) ==
    LET q == encode_text(query)
        sim(i) == q[1] * emb[i][1] + q[2] * emb[i][2]
        indices == SortSeq([i \in 1..Len(emb) |-> i], LAMBDA a, b : sim(a) > sim(b))
        kept == IF limit < Len(indices) THEN limit ELSE Len(indices)
    IN  [k \in 1..kept |-> paths[indices[k]]]

\* embeddings.db: whether the file is there, whether it has the embeddings
\* table, and the rows of the table
NoFile == [file |-> FALSE, table |-> FALSE, rows |-> <<>>]
NoTable == [file |-> TRUE, table |-> FALSE, rows |-> <<>>]
EmptyTable == [file |-> TRUE, table |-> TRUE, rows |-> <<>>]
TwoImages ==
    [file |-> TRUE, table |-> TRUE,
     rows |-> <<[path |-> "cat.jpg", embedding |-> <<3, 0>>],
                [path |-> "dog.jpg", embedding |-> <<0, 2>>]>>]

\* schedule_unload(): the timer referenced is cancelled and a new one is
\* started.  A timer is known by the time it is due; timers holds the timers
\* started, not cancelled and not yet fired
schedule_unload(timer, pending, time) ==
    [unload_timer |-> <<time + UNLOAD_DELAY>>,
     timers |-> (pending \ {timer[i] : i \in 1..Len(timer)}) \cup {time + UNLOAD_DELAY}]

(***************************************************************************)
(* auto_index: one path handed to the three stores.                        *)
(***************************************************************************)
\* config.SKIP_FOLDERS
SKIP_FOLDERS ==
    {<<"$", "r", "e", "c", "y", "c", "l", "e", ".", "b", "i", "n">>,
     <<"s", "y", "s", "t", "e", "m", " ", "v", "o", "l", "u", "m", "e", " ", "i", "n", "f", "o", "r", "m", "a", "t", "i", "o", "n">>,
     <<"c", "o", "n", "f", "i", "g", ".", "m", "s", "i">>,
     <<"w", "i", "n", "d", "o", "w", "s", ".", "o", "l", "d">>,
     <<"$", "w", "i", "n", "r", "e", "a", "g", "e", "n", "t">>,
     <<"$", "g", "e", "t", "c", "u", "r", "r", "e", "n", "t">>,
     <<"$", "s", "y", "s", "r", "e", "s", "e", "t">>,
     <<"$", "a", "v", "_", "a", "s", "w", "$">>,
     <<"f", "o", "u", "n", "d", ".", "0", "0", "0">>}

\* config.SKIP_PATTERNS
SKIP_PATTERNS ==
    {<<"t", "e", "m", "p">>,
     <<"t", "m", "p">>,
     <<"c", "a", "c", "h", "e">>,
     <<"_", "_", "p", "y", "c", "a", "c", "h", "e", "_", "_">>,
     <<"n", "o", "d", "e", "_", "m", "o", "d", "u", "l", "e", "s">>,
     <<"p", "k", "g">>,
     <<".", "v", "s", "c", "o", "d", "e">>}

\* config.VALID_IMAGE_EXTENSIONS and config.VALID_DOCUMENT_EXTENSIONS
VALID_IMAGE_EXTENSIONS ==
    {<<".", "j", "p", "g">>,
     <<".", "j", "p", "e", "g">>,
     <<".", "p", "n", "g">>,
     <<".", "g", "i", "f">>,
     <<".", "b", "m", "p">>,
     <<".", "t", "i", "f", "f">>,
     <<".", "w", "e", "b", "p">>}

VALID_DOCUMENT_EXTENSIONS ==
    {<<".", "p", "d", "f">>,
     <<".", "d", "o", "c", "x">>,
     <<".", "t", "x", "t">>,
     <<".", "m", "d">>}

\* config.MIN_IMAGE_SIZE_KB
MIN_IMAGE_SIZE_KB == 10

\* pattern in s, for two str
Contains(s, pattern) ==
    \E i \in 0..(Len(s) - Len(pattern)) : SubSeq(s, i + 1, i + Len(pattern)) = pattern

\* A path is the sequence of the entries it goes through, the entry it names
\* last.  An entry is [name, isdir, exists, accessible, kb, chunks]: kb is
\* os.path.getsize in KB, chunks the number of chunks chunk_text makes of
\* the text extract_text_from_file reads from it.
\* os.path.abspath(path) as the names of its components
PathName(path) == [i \in 1..Len(path) |-> path[i].name]

\* utils.helpers.is_hidden where os.name is not 'nt': the basename starts
\* with a dot
is_hidden(path) ==
    LET name == path[Len(path)].name
    IN  name # <<>> /\ Head(name) = "."

\* utils.helpers.is_accessible: os.access(path, os.R_OK)
is_accessible(path) == path[Len(path)].accessible

\* auto_index.should_skip
should_skip(path) ==
    LET basename_lower == Lower(path[Len(path)].name)
    IN  \/ basename_lower \in SKIP_FILES
        \/ path[Len(path)].isdir /\ basename_lower \in SKIP_FOLDERS
        \/ \E pattern \in SKIP_PATTERNS : Contains(basename_lower, pattern)
        \/ is_hidden(path) \/ ~is_accessible(path)

\* indexing.file_indexer.collect_entries started at the first entry of path:
\* whether the walk appends the entry path names.  A directory is pruned on a
\* skip pattern, when hidden, a skip folder or unreadable, and on a character
\* outside the permitted set, and nothing below a pruned directory is walked;
\* a file is dropped when hidden, a skip file or unreadable, and on such a
\* character.  The root itself is not looked at.
walk_collects(path) ==
    LET dir_allowed(k) ==
            LET name_l == Lower(path[k].name)
            IN  /\ ~\E pattern \in SKIP_PATTERNS : Contains(name_l, pattern)
                /\ ~(is_hidden(SubSeq(path, 1, k)) \/ name_l \in SKIP_FOLDERS
                     \/ ~is_accessible(SubSeq(path, 1, k)))
                /\ has_valid_characters(path[k].name)
        file_allowed(k) ==
            LET name_l == Lower(path[k].name)
            IN  /\ ~(is_hidden(SubSeq(path, 1, k)) \/ name_l \in SKIP_FILES
                     \/ ~is_accessible(SubSeq(path, 1, k)))
                /\ has_valid_characters(path[k].name)
    IN  /\ Len(path) >= 2
        /\ \A k \in 2..(Len(path) - 1) : dir_allowed(k)
        /\ IF path[Len(path)].isdir THEN dir_allowed(Len(path))
           ELSE file_allowed(Len(path))

\* auto_index.is_path_in_indexed_paths with every path listed a prefix of
\* any path: os.path.commonpath is then the listed path
is_path_in_indexed_paths_any(file_path, indexed_paths) ==
    indexed_paths # <<>>

\* auto_index.is_path_in_indexed_paths: os.path.commonpath of the two is the
\* longest run of leading components they share
is_path_in_indexed_paths(file_path, indexed_paths) ==
    \E i \in 1..Len(indexed_paths) :
        LET indexed_path == indexed_paths[i]
            shared == {n \in 0..Len(indexed_path) :
                          /\ n <= Len(file_path)
                          /\ SubSeq(file_path, 1, n) = SubSeq(indexed_path, 1, n)}
            common == SubSeq(indexed_path, 1, SetMax(shared))
        IN  common = indexed_path

\* image_embeddings.db and text_embeddings.db: is the file there, has it the
\* table embeddings, and the rows of the table in rowid order
StoreFile(file, table, rows) == [file |-> file, table |-> table, rows |-> rows]

\* auto_index.index_image with CLIP loaded and the image readable: a file
\* under MIN_IMAGE_SIZE_KB is left out; sqlite3.connect creates a missing
\* image_embeddings.db, and without the table the INSERT OR REPLACE raises
\* into the except clause
index_image(istore, path) ==
    IF path[Len(path)].kb < MIN_IMAGE_SIZE_KB
    THEN [store |-> istore, ok |-> FALSE]
    ELSE IF ~istore.table
    THEN [store |-> StoreFile(TRUE, FALSE, <<>>), ok |-> FALSE]
    ELSE LET others == SelectSeq(istore.rows, LAMBDA r : r.path # PathName(path))
         IN  [store |-> StoreFile(TRUE, TRUE,
                            Append(others, [path |-> PathName(path)])),
              ok |-> TRUE]

\* auto_index.index_document with the text models loaded: no text or no
\* chunk returns before the connect; DELETE of the rows of the file, then one
\* INSERT for each chunk
index_document(tstore, path) ==
    IF path[Len(path)].chunks = 0
    THEN [store |-> tstore, ok |-> FALSE]
    ELSE IF ~tstore.table
    THEN [store |-> StoreFile(TRUE, FALSE, <<>>), ok |-> FALSE]
    ELSE LET others == SelectSeq(tstore.rows, LAMBDA r : r.file_path # PathName(path))
             chunks == [idx \in 1..path[Len(path)].chunks |->
                            [file_path |-> PathName(path), chunk_index |-> idx - 1]]
         IN  [store |-> StoreFile(TRUE, TRUE, others \o chunks), ok |-> TRUE]

\* indexing.text_indexer.init_db: CREATE TABLE IF NOT EXISTS embeddings
init_db(tstore) == StoreFile(TRUE, TRUE, tstore.rows)

\* auto_index.auto_index: the three stores after the call and the boolean
\* returned; indexed_paths is what get_indexed_paths reads
auto_index(db, rows, istore, tstore, path, indexed_paths) ==
    LET same == [db |-> db, rows |-> rows, image |-> istore, text |-> tstore,
                 ok |-> FALSE]
    IN  IF ~path[Len(path)].exists THEN same
        ELSE IF should_skip(path) THEN same
        ELSE LET basename == path[Len(path)].name
                 isdir == path[Len(path)].isdir
                 \* ext is None for a directory, which neither set holds
                 ext == Lower(SplitExt(basename))
                 file_type == IF isdir THEN Folder ELSE AutoType(basename)
                 file_data == FileData(basename, PathName(path), file_type)
                 done == index_to_file_search_db(db, rows, file_data)
                 index == [db |-> done.db, rows |-> done.rows, image |-> istore,
                           text |-> tstore, ok |-> done.ok]
             IN  IF ~isdir /\ ext \in VALID_IMAGE_EXTENSIONS
                 THEN IF is_path_in_indexed_paths(PathName(path),
                                                  indexed_paths.image_paths)
                      THEN LET image == index_image(istore, path)
                           IN  [index EXCEPT !.image = image.store,
                                             !.ok = done.ok /\ image.ok]
                      ELSE index
                 ELSE IF ~isdir /\ ext \in VALID_DOCUMENT_EXTENSIONS
                 THEN IF is_path_in_indexed_paths(PathName(path),
                                                  indexed_paths.document_paths)
                      THEN LET doc == index_document(tstore, path)
                           IN  [index EXCEPT !.text = doc.store,
                                             !.ok = done.ok /\ doc.ok]
                      ELSE index
                 ELSE index

(***************************************************************************)
(* Inputs of the durable-index model.                                      *)
(***************************************************************************)
ReportPdf == <<"r", "e", "p", "o", "r", "t", ".", "p", "d", "f">>
ReportPdfUpper == <<"R", "e", "p", "o", "r", "t", ".", "P", "D", "F">>
ResumeTxt == <<"r", EAcute, "s", "u", "m", EAcute, ".", "t", "x", "t">>
\* a name with capital sigma between two letters, and one a file system
\* that allows the asterisk can hold
SigmaName == <<"a", CapSigma, "a">>
StarName == <<"a", "*">>

\* the names handed to build_search_index and index_to_file_search_db
IndexNames == {ReportPdf, ReportPdfUpper, SigmaName, StarName}

\* the names a crawled directory can hold
CrawlNames == {ReportPdf, ReportPdfUpper, ResumeTxt}

DocsDir == "docs"

\* the FileData a caller builds for a name: as collect_entries does
FileOf(name) == FileData(name, JoinPath(DocsDir, name), EntryType(name))

SeqsUpTo(S, n) == UNION {[1..k -> S] : k \in 0..n}

\* the sequences over S without a repeated element, of length n at most
DistinctSeqsUpTo(S, n) ==
    {q \in SeqsUpTo(S, n) : \A i, j \in 1..Len(q) : i # j => q[i] # q[j]}

\* the lists handed to build_search_index
BuildLists == SeqsUpTo({FileOf(n) : n \in IndexNames}, MaxRecords)

\* the listings of a directory: its files in the order os.walk yields them
Listings == DistinctSeqsUpTo(CrawlNames, Cardinality(CrawlNames))

\* the entries of the paths handed to auto_index
DirEntry(name) ==
    [name |-> name, isdir |-> TRUE, exists |-> TRUE, accessible |-> TRUE,
     kb |-> 0, chunks |-> 0]
FileEntry(name, kb, chunks) ==
    [name |-> name, isdir |-> FALSE, exists |-> TRUE, accessible |-> TRUE,
     kb |-> kb, chunks |-> chunks]
\* the paths handed to auto_index, each below the directory d or e
AutoPaths ==
    LET DirD == DirEntry(<<"d">>)
        DirE == DirEntry(<<"e">>)
        DirTmp == DirEntry(<<"t", "m", "p">>)
        ATxt == FileEntry(<<"a", ".", "t", "x", "t">>, 1, 2)
        CJpg == FileEntry(<<"c", ".", "J", "P", "G">>, 20, 0)
    IN  {<<DirD, ATxt>>,
         <<DirD, FileEntry(<<"t", "m", "p", ".", "t", "x", "t">>, 1, 1)>>,
         <<DirD, DirTmp, ATxt>>,
         <<DirD, DirTmp>>,
         <<DirD, DirE>>,
         <<DirD, CJpg>>,
         <<DirE, CJpg>>,
         <<DirD, FileEntry(<<"i", ".", "p", "n", "g">>, 2, 0)>>,
         <<DirD, FileEntry(<<".", "h", ".", "m", "d">>, 1, 1)>>,
         <<DirD, FileEntry(<<EAcute, ".", "t", "x", "t">>, 1, 1)>>,
         <<DirD, FileEntry(<<"e", ".", "t", "x", "t">>, 0, 0)>>,
         <<DirD, [ATxt EXCEPT !.accessible = FALSE]>>,
         <<DirD, [ATxt EXCEPT !.exists = FALSE]>>}

\* what indexed_paths.json can hold
IndexedPaths ==
    {[image_paths |-> <<>>, document_paths |-> <<>>],
     [image_paths |-> <<<<(<<"d">>)>>>>, document_paths |-> <<<<(<<"d">>)>>>>],
     [image_paths |-> <<<<(<<"e">>)>>>>, document_paths |-> <<<<(<<"d">>), <<"t", "m", "p">>>>>>]}

\* a run of index_files nothing fails in, and the runs something fails in:
\* the scan, or the executemany after commits commits
Sound == [scan |-> FALSE, commits |-> NoFault]
Faults == {[scan |-> TRUE, commits |-> NoFault], [scan |-> FALSE, commits |-> <<0>>]}

\* the characters handed to get_value: the letters, digits and permitted
\* symbols, and two characters a file name cannot hold
KeyChars ==
    AsciiLower \cup AsciiUpper \cup OtherLower \cup OtherUpper \cup Digits
    \cup VALID_SYMBOLS \cup {"*", "/"}

\* the arguments handed to clean_query: None, and the texts of MaxText
\* characters at most over a few characters
QueryArgs ==
    {<<>>} \cup {<<s>> : s \in SeqsUpTo({"a", "A", ".", "1", "*", CapEAcute}, MaxText)}

\* the queries of the model
QReport == <<"r", "e", "p", "o", "r", "t">>
QZz9 == <<"z", "z", "9">>
IndexQueries ==
    {QReport, <<"R", "e", "p">>, QZz9, <<"a">>, <<"a", CapSigma>>,
     <<"a", CapSigma, "a">>, <<"a", "*">>, <<"*">>, <<>>}

\* the queries, limits and category lists of the search_db calls
SearchQueries == {QReport, <<"*">>, <<>>}
SearchLimits == {1, 10}
SearchCategories == {<<>>, <<"file", "document">>}

VARIABLES
    db,         \* file_search.db: "nofile", "notable" or "ready"
    rows,       \* table file_index in rowid order
    runs,       \* runs of index_files so far
    image_db,   \* image_embeddings.db
    text_db,    \* text_embeddings.db
    progress,   \* the calls of progress_callback during the last index_files
    trees,      \* file_search.trees: root key to Tree
    disk,       \* TREES_DIR: root key to <<>> or <<document>>
    image_embeddings,   \* <<>> for None, else <<matrix>>
    image_paths,        \* <<>> for None, else <<list of paths>>
    embeddings_loaded,
    last_access_time,   \* <<>> for None, else <<time>>
    unload_timer,       \* <<>> for None, else <<time the Timer is due>>
    timers,     \* the Timers started, not cancelled, not yet fired
    now,        \* time.time()
    store,      \* embeddings.db
    req,        \* the request thread: where it is and its locals
    tmr,        \* the thread of the fired Timer: where it is
    loaders,    \* the threads of concurrent load_embeddings calls: where each is
    pool,       \* the threading.Timer objects, each with its thread
    handed,     \* records handed to the writers so far
    builder,    \* the thread in build_search_index: where it is and its locals
    lastOp,     \* the last call completed and its arguments
    repeated,   \* the last call repeated the call before it, arguments included
    result      \* what the last call returned

embedState == <<image_db, text_db>>
indexState == <<db, rows, runs, embedState, progress, builder>>
trieState == <<trees, disk>>
evictState == <<loaders, pool>>
cacheState == <<image_embeddings, image_paths, embeddings_loaded, last_access_time,
                unload_timer, timers, now, store, req, tmr, evictState>>
vars == <<indexState, trieState, cacheState, handed, lastOp, repeated, result>>

\* a thread at rest: the request thread, the Timer thread, the builder
Idle == [pc |-> "idle"]

\* the threads that call load_embeddings concurrently, and the names of the
\* threading.Timer objects alive at one time
Loaders == {1, 2}
TimerIds == 1..MaxTimers

\* a name bound to no Timer, and threading.Timer(UNLOAD_DELAY,
\* unload_embeddings) as constructed: not started, not cancelled
NoTimer == [started |-> FALSE, cancelled |-> FALSE, due |-> 0, pc |-> "none"]
NewTimer == [started |-> FALSE, cancelled |-> FALSE, due |-> 0, pc |-> "new"]

\* the durable index before anything ran: no file_search.db, no build running
IndexStart ==
    /\ db = "nofile"
    /\ rows = <<>>
    /\ runs = 0
    /\ image_db = StoreFile(FALSE, FALSE, <<>>)
    /\ text_db = StoreFile(FALSE, FALSE, <<>>)
    /\ progress = <<>>
    /\ builder = Idle

\* the trees as the import of file_search leaves them, and an empty TREES_DIR
TrieStart ==
    /\ trees = [name \in all_names |-> Tree(name)]
    /\ disk = [name \in all_names |-> <<>>]

\* the globals of image_search after import, over the embeddings.db s
CacheStart(s) ==
    /\ image_embeddings = <<>>
    /\ image_paths = <<>>
    /\ embeddings_loaded = FALSE
    /\ last_access_time = <<>>
    /\ unload_timer = <<>>
    /\ timers = {}
    /\ now = 0
    /\ store = s
    /\ req = Idle
    /\ tmr = Idle
    /\ loaders = [t \in Loaders |-> Idle]
    /\ pool = [id \in TimerIds |-> NoTimer]

CallsStart ==
    /\ handed = 0
    /\ lastOp = [op |-> "none"]
    /\ repeated = FALSE
    /\ result = Return(<<>>)

IndexInit == IndexStart /\ TrieStart /\ CacheStart(NoFile) /\ CallsStart

\* build_search_index(file_list, batch_size=batch_size) with no callback:
\* initiate_db creates the file and the table, the loop writes
BuildSearchIndex(file_list, batch_size, commits) ==
    /\ handed + Len(file_list) <= MaxRecords
    /\ LET built == build_search_index(rows, file_list, batch_size, commits)
       IN  /\ db' = "ready"
           /\ rows' = built.rows
           /\ result' = IF built.raised THEN Raised ELSE Return(<<>>)
    /\ handed' = handed + Len(file_list)
    /\ lastOp' = [op |-> "build_search_index", file_list |-> file_list,
                  batch_size |-> batch_size, commits |-> commits, before |-> rows]
    /\ repeated' = (lastOp' = lastOp)
    /\ UNCHANGED <<runs, embedState, progress, builder, trieState, cacheState>>

\* index_files(root_dir, progress_callback) over a directory holding files
IndexFiles(files, fault) ==
    /\ runs < MaxRuns
    /\ LET done == index_files(rows, DocsDir, files, fault)
       IN  /\ db' = IF done.initiated THEN "ready" ELSE db
           /\ rows' = done.rows
           /\ progress' = done.progress
           /\ result' = Return(<<done.status, done.count>>)
    /\ runs' = runs + 1
    /\ lastOp' = [op |-> "index_files", files |-> files, fault |-> fault,
                  before |-> rows]
    /\ repeated' = (lastOp' = lastOp)
    /\ UNCHANGED <<handed, embedState, builder, trieState, cacheState>>

\* index_to_file_search_db(file_data), the write of auto_index
IndexToFileSearchDb(file_data) ==
    /\ handed + 1 <= MaxRecords
    /\ LET done == index_to_file_search_db(db, rows, file_data)
       IN  /\ db' = done.db
           /\ rows' = done.rows
           /\ result' = Return(<<done.ok>>)
    /\ handed' = handed + 1
    /\ lastOp' = [op |-> "index_to_file_search_db", file_data |-> file_data,
                  before |-> rows]
    /\ repeated' = (lastOp' = lastOp)
    /\ UNCHANGED <<runs, embedState, progress, builder, trieState, cacheState>>

\* search_db(query, limit, categories)
SearchDb(query, limit, categories) ==
    /\ result' = search_db(db, rows, query, limit, categories)
    /\ db' = search_db_store(db, query)
    /\ lastOp' = [op |-> "search_db", query |-> query, limit |-> limit,
                  categories |-> categories]
    /\ repeated' = (lastOp' = lastOp)
    /\ UNCHANGED <<rows, handed, runs, embedState, progress, builder, trieState, cacheState>>

\* SearchAPI.search(query, search_type, category, limit)
ApiSearch(query, search_type, category, limit) ==
    /\ result' = api_search(db, rows, query, search_type, category, limit)
    /\ db' = IF clean_query(query) = <<>> THEN db
             ELSE search_db_store(db, clean_query(query))
    /\ lastOp' = [op |-> "search", query |-> query, search_type |-> search_type,
                  category |-> category, limit |-> limit]
    /\ repeated' = (lastOp' = lastOp)
    /\ UNCHANGED <<rows, handed, runs, embedState, progress, builder, trieState, cacheState>>

\* the durable index under its two writers and its two readers
IndexNext ==
    \/ \E file_list \in BuildLists, batch_size \in {2, BATCH_SIZE} :
            BuildSearchIndex(file_list, batch_size, NoFault)
    \/ \E n \in IndexNames : IndexToFileSearchDb(FileOf(n))
    \/ \E query \in SearchQueries, limit \in SearchLimits,
          categories \in SearchCategories :
            SearchDb(query, limit, categories)
    \/ \E query \in {QZz9, <<"*">>}, search_type \in {"normal", "name"} :
            ApiSearch(query, search_type, None, <<>>)

SpecIndex == IndexInit /\ [][IndexNext]_vars

\* the durable index under full crawls of one directory
CrawlNext ==
    \/ \E files \in Listings : IndexFiles(files, Sound)
    \/ \E query \in {QReport, QZz9}, category \in {None, "document"},
          limit \in {<<>>, <<10>>} :
            ApiSearch(query, "normal", category, limit)

SpecCrawl == IndexInit /\ [][CrawlNext]_vars

\* auto_index(file_path) with indexed_paths.json holding indexed_paths
AutoIndex(path, indexed_paths) ==
    /\ handed + 1 <= MaxRecords
    /\ LET done == auto_index(db, rows, image_db, text_db, path, indexed_paths)
       IN  /\ db' = done.db
           /\ rows' = done.rows
           /\ image_db' = done.image
           /\ text_db' = done.text
           /\ result' = Return(<<done.ok>>)
    /\ handed' = handed + 1
    /\ lastOp' = [op |-> "auto_index", path |-> path, indexed_paths |-> indexed_paths,
                  db |-> db, before |-> rows, image_db |-> image_db,
                  text_db |-> text_db]
    /\ repeated' = (lastOp' = lastOp)
    /\ UNCHANGED <<runs, progress, builder, trieState, cacheState>>

\* init_db() of the text indexer, which index_documents runs first
InitDb ==
    /\ ~text_db.table
    /\ text_db' = init_db(text_db)
    /\ lastOp' = [op |-> "init_db"]
    /\ repeated' = FALSE
    /\ result' = Return(<<>>)
    /\ UNCHANGED <<db, rows, runs, image_db, progress, handed, builder, trieState,
                   cacheState>>

\* the three stores under auto_index, after initiate_db and init_db or not
AutoNext ==
    \/ BuildSearchIndex(<<>>, BATCH_SIZE, NoFault)
    \/ InitDb
    \/ \E path \in AutoPaths, indexed_paths \in IndexedPaths :
            AutoIndex(path, indexed_paths)

SpecAuto == IndexInit /\ [][AutoNext]_vars

\* the durable index under runs the scan or the store fails in
FaultNext ==
    \/ \E files \in {<<ReportPdf>>, <<ReportPdfUpper, ReportPdf>>},
          fault \in Faults \cup {Sound} :
            IndexFiles(files, fault)
    \/ \E file_list \in SeqsUpTo({FileOf(ReportPdf), FileOf(ResumeTxt)}, MaxRecords),
          commits \in {<<0>>, <<1>>} :
            BuildSearchIndex(file_list, 1, commits)

SpecFault == IndexInit /\ [][FaultNext]_vars

\* get_value(ch)
GetValue(ch) ==
    /\ result' = IF get_value(ch) = Raise THEN Raised ELSE Return(get_value(ch))
    /\ lastOp' = [op |-> "get_value", ch |-> ch]
    /\ repeated' = (lastOp' = lastOp)
    /\ UNCHANGED <<handed, indexState, trieState, cacheState>>

\* clean_query(s)
CleanQuery(arg) ==
    /\ result' = Return(clean_query(OrEmpty(arg)))
    /\ lastOp' = [op |-> "clean_query", arg |-> arg]
    /\ repeated' = (lastOp' = lastOp)
    /\ UNCHANGED <<handed, indexState, trieState, cacheState>>

\* the key normalizer under its callers
KeysNext ==
    \/ \E ch \in KeyChars : GetValue(ch)
    \/ \E arg \in QueryArgs : CleanQuery(arg)

SpecKeys == IndexInit /\ [][KeysNext]_vars

(***************************************************************************)
(* The durable index with build_search_index in one thread, stepping from  *)
(* batch to batch, while index_to_file_search_db and search_db run on      *)
(* connections of their own.  rows is what is committed; a batch written   *)
(* by executemany is seen by its own connection alone until conn.commit(). *)
(***************************************************************************)
\* the tuple build_search_index appends to batch for a record
BatchEntry(file_data) ==
    [key |-> NormalizedKey(file_data.file_name),
     ext |-> FileExtension(file_data.file_type),
     cat |-> get_file_category(FileExtension(file_data.file_type)),
     rec |-> file_data]

\* the records of the tuples of a batch
BatchRecords(batch) == [i \in 1..Len(batch) |-> batch[i].rec]

\* the directory auto_index receives its paths from
WatchDir == "watch"

\* the names of the files both writers meet, one of them not permitted, and
\* a directory with the name of one of the files
SharedNames == {<<"a">>, <<"a", "b">>}
SharedLists ==
    SeqsUpTo({FileOf(n) : n \in SharedNames \cup {StarName}}
                 \cup {FileData(<<"a">>, JoinPath(DocsDir, <<"a">>), Folder)},
             MaxRecords)
SharedQueries == {<<"a">>, <<"a", "b">>}

\* build_search_index entered: initiate_db, connect, the loop at its start
BuildEnter(file_list, batch_size) ==
    /\ builder = Idle
    /\ handed + Len(file_list) <= MaxRecords
    /\ db' = "ready"
    /\ builder' = [pc |-> "loop", file_list |-> file_list,
                   batch_size |-> batch_size, batch |-> <<>>,
                   committed |-> <<>>, uncommitted |-> <<>>]
    /\ handed' = handed + Len(file_list)
    /\ lastOp' = [op |-> "initiate_db"]
    /\ repeated' = FALSE
    /\ result' = Return(<<>>)
    /\ UNCHANGED <<rows, runs, embedState, progress, trieState, cacheState>>

\* one turn of the loop: the record is passed over, or get_value raises and
\* the call ends with its batch never written, or the tuple joins the batch
\* and a full batch is written by executemany, which takes the write lock
BuildIterate ==
    /\ builder.pc = "loop"
    /\ builder.file_list # <<>>
    /\ LET file_data == Head(builder.file_list)
           rest == Tail(builder.file_list)
           nb == Append(builder.batch, BatchEntry(file_data))
       IN  IF file_data.file_name = <<>>
           THEN /\ builder' = [builder EXCEPT !.file_list = rest]
                /\ lastOp' = [op |-> "continue"]
                /\ result' = Return(<<>>)
           ELSE IF NormalizedKey(file_data.file_name) = Raise
           THEN /\ builder' = Idle
                /\ lastOp' = [op |-> "build_search_index"]
                /\ result' = Raised
           ELSE IF Len(nb) >= builder.batch_size
           THEN /\ builder' = [builder EXCEPT !.pc = "written", !.file_list = rest,
                                              !.batch = nb,
                                              !.uncommitted = Flush(rows, nb)]
                /\ lastOp' = [op |-> "executemany"]
                /\ result' = Return(<<>>)
           ELSE /\ builder' = [builder EXCEPT !.file_list = rest, !.batch = nb]
                /\ lastOp' = [op |-> "append"]
                /\ result' = Return(<<>>)
    /\ repeated' = FALSE
    /\ UNCHANGED <<db, rows, runs, handed, embedState, progress, trieState,
                   cacheState>>

\* after the loop: a remaining batch is written, or the call returns
BuildFinish ==
    /\ builder.pc = "loop"
    /\ builder.file_list = <<>>
    /\ IF builder.batch # <<>>
       THEN /\ builder' = [builder EXCEPT !.pc = "written",
                                          !.uncommitted = Flush(rows, builder.batch)]
            /\ lastOp' = [op |-> "executemany"]
       ELSE /\ builder' = Idle
            /\ lastOp' = [op |-> "build_search_index"]
    /\ result' = Return(<<>>)
    /\ repeated' = FALSE
    /\ UNCHANGED <<db, rows, runs, handed, embedState, progress, trieState,
                   cacheState>>

\* conn.commit() after executemany: the batch becomes what every connection
\* reads, and the write lock is released
BuildCommit ==
    /\ builder.pc = "written"
    /\ rows' = builder.uncommitted
    /\ builder' = [builder EXCEPT !.pc = "loop", !.batch = <<>>,
                                  !.uncommitted = <<>>,
                                  !.committed = @ \o BatchRecords(builder.batch)]
    /\ lastOp' = [op |-> "commit", batch |-> BatchRecords(builder.batch),
                  before |-> rows]
    /\ result' = Return(<<>>)
    /\ repeated' = FALSE
    /\ UNCHANGED <<db, runs, handed, embedState, progress, trieState, cacheState>>

\* index_to_file_search_db while no batch is written and uncommitted: its
\* INSERT and its commit hold the write lock from start to end
IndexUnlocked(file_data) ==
    /\ builder.pc # "written"
    /\ IndexToFileSearchDb(file_data)

\* index_to_file_search_db while the builder holds the write lock past the
\* timeout of sqlite3.connect: the INSERT raises "database is locked", the
\* except clause returns False
IndexLocked(file_data) ==
    /\ builder.pc = "written"
    /\ handed + 1 <= MaxRecords
    /\ handed' = handed + 1
    /\ result' = Return(<<FALSE>>)
    /\ lastOp' = [op |-> "index_to_file_search_db", file_data |-> file_data,
                  before |-> rows]
    /\ repeated' = (lastOp' = lastOp)
    /\ UNCHANGED <<db, rows, runs, embedState, progress, builder, trieState,
                   cacheState>>

\* the builder, the incremental writer and the reader, interleaved
WritersNext ==
    \/ \E file_list \in SharedLists, batch_size \in {1, 2} :
            BuildEnter(file_list, batch_size)
    \/ BuildIterate
    \/ BuildFinish
    \/ BuildCommit
    \/ \E n \in SharedNames :
            IndexUnlocked(FileData(n, JoinPath(WatchDir, n), EntryType(n)))
    \/ \E n \in SharedNames :
            IndexLocked(FileData(n, JoinPath(WatchDir, n), EntryType(n)))
    \/ \E query \in SharedQueries, limit \in SearchLimits :
            SearchDb(query, limit, <<>>)

SpecWriters == IndexInit /\ [][WritersNext]_vars

(***************************************************************************)
(* The durable index over names whose keys run into each other: the key of *)
(* a symbol is a word of letters.                                          *)
(***************************************************************************)
DotA == <<".", "a">>
Dota == <<"d", "o", "t", "a">>
SymbolLists == SeqsUpTo({FileOf(DotA), FileOf(Dota)}, MaxRecords)
SymbolQueries == {<<".">>, <<"d">>, DotA, <<"D", "o", "t">>}

SymbolsNext ==
    \/ \E file_list \in SymbolLists, batch_size \in {1, BATCH_SIZE} :
            BuildSearchIndex(file_list, batch_size, NoFault)
    \/ \E query \in SymbolQueries, limit \in SearchLimits :
            SearchDb(query, limit, <<>>)

SpecSymbols == IndexInit /\ [][SymbolsNext]_vars

(***************************************************************************)
(* The trie under its builder, its persistence and its reader.             *)
(***************************************************************************)
\* the names handed to build_trees
TrieNames == {<<"a">>, <<"a", "b">>, <<"A", "b">>, <<"a", EAcute>>}

\* the lists handed to build_trees
TrieLists == SeqsUpTo({FileOf(n) : n \in TrieNames}, MaxTrieRecords) \ {<<>>}

\* the prefixes searched for
TriePrefixes == {<<"a">>, <<"a", "b">>, <<"b">>, <<"a", "*">>, <<>>}

\* build_trees(file_list)
BuildTrees(file_list) ==
    /\ handed + Len(file_list) <= MaxTrieRecords
    /\ LET built == build_trees(trees, file_list)
       IN  /\ trees' = built.trees
           /\ result' = IF built.raised THEN Raised ELSE Return(<<>>)
    /\ handed' = handed + Len(file_list)
    /\ lastOp' = [op |-> "build_trees", file_list |-> file_list,
                  empty |-> (trees = clear_trees)]
    /\ repeated' = (lastOp' = lastOp)
    /\ UNCHANGED <<disk, indexState, cacheState>>

\* save_trees()
SaveTrees ==
    /\ disk' = save_trees(trees, disk)
    /\ result' = Return(<<>>)
    /\ lastOp' = [op |-> "save_trees"]
    /\ repeated' = (lastOp' = lastOp)
    /\ UNCHANGED <<trees, handed, indexState, cacheState>>

\* clear_trees()
ClearTrees ==
    /\ trees' = clear_trees
    /\ result' = Return(<<>>)
    /\ lastOp' = [op |-> "clear_trees"]
    /\ repeated' = (lastOp' = lastOp)
    /\ UNCHANGED <<disk, handed, indexState, cacheState>>

\* load_trees(), which returns the number of documents loaded
LoadTrees ==
    /\ trees' = load_trees(trees, disk)
    /\ result' = Return(<<Cardinality({name \in all_names : disk[name] # <<>>})>>)
    /\ lastOp' = [op |-> "load_trees"]
    /\ repeated' = (lastOp' = lastOp)
    /\ UNCHANGED <<disk, handed, indexState, cacheState>>

\* search_tree(prefix)
SearchTree(prefix) ==
    /\ LET found == search_tree(trees, disk, prefix)
       IN  /\ trees' = found.trees
           /\ result' = found.result
    /\ lastOp' = [op |-> "search_tree", prefix |-> prefix]
    /\ repeated' = (lastOp' = lastOp)
    /\ UNCHANGED <<disk, handed, indexState, cacheState>>

TrieNext ==
    \/ \E file_list \in TrieLists : BuildTrees(file_list)
    \/ SaveTrees
    \/ ClearTrees
    \/ LoadTrees
    \/ \E prefix \in TriePrefixes : SearchTree(prefix)

SpecTrie == IndexInit /\ [][TrieNext]_vars

(***************************************************************************)
(* The image embedding cache under one request thread and the thread of    *)
(* the fired Timer.  No lock guards the globals, so each thread advances   *)
(* one statement at a time and the two interleave freely; pc names the     *)
(* line of image_search.py the thread is about to run.                     *)
(***************************************************************************)
\* the clock advances by a fifth of the inactivity window
TickStep == UNLOAD_DELAY \div 5
Horizon == MaxWindows * UNLOAD_DELAY

\* the embeddings.db a behaviour can start over
Stores == {NoFile, NoTable, EmptyTable, TwoImages}

\* image_search.is_embeddings_loaded()
is_embeddings_loaded == embeddings_loaded

cacheGlobals == <<image_embeddings, image_paths, embeddings_loaded,
                  last_access_time, unload_timer, timers>>

\* a call returns or raises: the request thread is at rest again
Finish(outcome) ==
    /\ req' = Idle
    /\ result' = outcome
    /\ lastOp' = [op |-> req.op, query |-> req.query, limit |-> req.limit]

Running == UNCHANGED <<result, lastOp>>

\* load_embeddings() returns emb, paths: to its caller, or into search_images
ReturnLoaded(emb, paths) ==
    IF req.op = "load_embeddings" THEN Finish(Return(<<emb, paths>>))
    ELSE /\ req' = [req EXCEPT !.pc = "L131", !.emb = emb, !.paths = paths]
         /\ Running

\* load_embeddings() or search_images(query, limit) is called; line 29 reads
\* embeddings_loaded
Call(op, query, limit) ==
    /\ req.pc = "idle"
    /\ req' = [pc |-> IF embeddings_loaded THEN "L31" ELSE "L35", op |-> op,
               query |-> query, limit |-> limit,
               rows |-> <<>>, emb |-> <<>>, paths |-> <<>>]
    /\ Running
    /\ UNCHANGED <<cacheGlobals, now, evictState, store, tmr>>

\* line 31: last_access_time = time.time()
ReqTouch ==
    /\ req.pc = "L31"
    /\ last_access_time' = <<now>>
    /\ req' = [req EXCEPT !.pc = "L32"]
    /\ Running
    /\ UNCHANGED <<image_embeddings, image_paths, embeddings_loaded,
                   unload_timer, timers, now, evictState, store, tmr>>

\* line 32: return image_embeddings, image_paths
ReqReturnCached ==
    /\ req.pc = "L32"
    /\ ReturnLoaded(image_embeddings, image_paths)
    /\ UNCHANGED <<cacheGlobals, now, evictState, store, tmr>>

\* lines 35-44: connect, which creates a missing file; the SELECT, which
\* raises sqlite3.OperationalError without the table; None, None on no rows
ReqSelect ==
    /\ req.pc = "L35"
    /\ store' = [store EXCEPT !.file = TRUE]
    /\ IF ~store.table THEN Finish(Raised)
       ELSE IF store.rows = <<>> THEN ReturnLoaded(<<>>, <<>>)
       ELSE /\ req' = [req EXCEPT !.pc = "L46", !.rows = store.rows]
            /\ Running
    /\ UNCHANGED <<cacheGlobals, now, evictState, tmr>>

\* line 46: image_paths = [row[0] for row in rows]
ReqSetPaths ==
    /\ req.pc = "L46"
    /\ image_paths' = <<[i \in 1..Len(req.rows) |-> req.rows[i].path]>>
    /\ req' = [req EXCEPT !.pc = "L49"]
    /\ Running
    /\ UNCHANGED <<image_embeddings, embeddings_loaded, last_access_time,
                   unload_timer, timers, now, evictState, store, tmr>>

\* lines 49-55: image_embeddings = the rows stacked, each divided by its norm
ReqSetEmbeddings ==
    /\ req.pc = "L49"
    /\ image_embeddings' =
            <<[i \in 1..Len(req.rows) |-> Normalize(req.rows[i].embedding)]>>
    /\ req' = [req EXCEPT !.pc = "L59"]
    /\ Running
    /\ UNCHANGED <<image_paths, embeddings_loaded, last_access_time,
                   unload_timer, timers, now, evictState, store, tmr>>

\* line 59: embeddings_loaded = True
ReqSetLoaded ==
    /\ req.pc = "L59"
    /\ embeddings_loaded' = TRUE
    /\ req' = [req EXCEPT !.pc = "L60"]
    /\ Running
    /\ UNCHANGED <<image_embeddings, image_paths, last_access_time,
                   unload_timer, timers, now, evictState, store, tmr>>

\* line 60: last_access_time = time.time()
ReqSetAccess ==
    /\ req.pc = "L60"
    /\ last_access_time' = <<now>>
    /\ req' = [req EXCEPT !.pc = "L64"]
    /\ Running
    /\ UNCHANGED <<image_embeddings, image_paths, embeddings_loaded,
                   unload_timer, timers, now, evictState, store, tmr>>

\* line 64: schedule_unload()
ReqSchedule ==
    /\ req.pc = "L64"
    /\ LET s == schedule_unload(unload_timer, timers, now)
       IN  /\ unload_timer' = s.unload_timer
           /\ timers' = s.timers
    /\ req' = [req EXCEPT !.pc = "L66"]
    /\ Running
    /\ UNCHANGED <<image_embeddings, image_paths, embeddings_loaded,
                   last_access_time, now, evictState, store, tmr>>

\* line 66: return image_embeddings, image_paths
ReqReturnFresh ==
    /\ req.pc = "L66"
    /\ ReturnLoaded(image_embeddings, image_paths)
    /\ UNCHANGED <<cacheGlobals, now, evictState, store, tmr>>

\* lines 131-133 of search_images: [] when emb or paths is None
ReqCheckLoaded ==
    /\ req.pc = "L131"
    /\ IF req.emb = <<>> \/ req.paths = <<>> THEN Finish(Return(<<>>))
       ELSE /\ req' = [req EXCEPT !.pc = "L136"]
            /\ Running
    /\ UNCHANGED <<cacheGlobals, now, evictState, store, tmr>>

\* line 136: last_access_time = time.time()
ReqSearchTouch ==
    /\ req.pc = "L136"
    /\ last_access_time' = <<now>>
    /\ req' = [req EXCEPT !.pc = "L139"]
    /\ Running
    /\ UNCHANGED <<image_embeddings, image_paths, embeddings_loaded,
                   unload_timer, timers, now, evictState, store, tmr>>

\* lines 139-149: the ranking over the locals emb and paths
ReqRank ==
    /\ req.pc = "L139"
    /\ Finish(Return(Rank(req.emb[1], req.paths[1], req.query, req.limit)))
    /\ UNCHANGED <<cacheGlobals, now, evictState, store, tmr>>

\* a Timer that is due fires: its thread enters unload_embeddings
TimerFire ==
    /\ tmr.pc = "idle"
    /\ \E due \in timers :
        /\ due <= now
        /\ timers' = timers \ {due}
    /\ tmr' = [pc |-> "L76"]
    /\ UNCHANGED <<image_embeddings, image_paths, embeddings_loaded,
                   last_access_time, unload_timer, now, evictState, store, req,
                   handed, lastOp, repeated, result, indexState, trieState>>

\* lines 75-76: the idleness test (time.time() is never 0, so the truth of
\* last_access_time is its not being None)
TmrCheck ==
    /\ tmr.pc = "L76"
    /\ tmr' = [pc |-> IF /\ last_access_time # <<>>
                         /\ now - last_access_time[1] >= UNLOAD_DELAY
                      THEN "L78" ELSE "L84"]
    /\ UNCHANGED <<cacheGlobals, now, evictState, store, req,
                   handed, lastOp, repeated, result, indexState, trieState>>

\* line 78: image_embeddings = None
TmrDropEmbeddings ==
    /\ tmr.pc = "L78"
    /\ image_embeddings' = <<>>
    /\ tmr' = [pc |-> "L79"]
    /\ UNCHANGED <<image_paths, embeddings_loaded, last_access_time,
                   unload_timer, timers, now, evictState, store, req,
                   handed, lastOp, repeated, result, indexState, trieState>>

\* line 79: image_paths = None
TmrDropPaths ==
    /\ tmr.pc = "L79"
    /\ image_paths' = <<>>
    /\ tmr' = [pc |-> "L80"]
    /\ UNCHANGED <<image_embeddings, embeddings_loaded, last_access_time,
                   unload_timer, timers, now, evictState, store, req,
                   handed, lastOp, repeated, result, indexState, trieState>>

\* line 80: embeddings_loaded = False
TmrClearLoaded ==
    /\ tmr.pc = "L80"
    /\ embeddings_loaded' = FALSE
    /\ tmr' = [pc |-> "L81"]
    /\ UNCHANGED <<image_embeddings, image_paths, last_access_time,
                   unload_timer, timers, now, evictState, store, req,
                   handed, lastOp, repeated, result, indexState, trieState>>

\* line 81: unload_timer = None
TmrClearTimer ==
    /\ tmr.pc = "L81"
    /\ unload_timer' = <<>>
    /\ tmr' = Idle
    /\ UNCHANGED <<image_embeddings, image_paths, embeddings_loaded,
                   last_access_time, timers, now, evictState, store, req,
                   handed, lastOp, repeated, result, indexState, trieState>>

\* line 84: schedule_unload()
TmrReschedule ==
    /\ tmr.pc = "L84"
    /\ LET s == schedule_unload(unload_timer, timers, now)
       IN  /\ unload_timer' = s.unload_timer
           /\ timers' = s.timers
    /\ tmr' = Idle
    /\ UNCHANGED <<image_embeddings, image_paths, embeddings_loaded,
                   last_access_time, now, evictState, store, req,
                   handed, lastOp, repeated, result, indexState, trieState>>

\* time passes while both threads are at rest and no Timer is due
Tick ==
    /\ req.pc = "idle"
    /\ tmr.pc = "idle"
    /\ \A due \in timers : due > now
    /\ now + TickStep <= Horizon
    /\ now' = now + TickStep
    /\ UNCHANGED <<cacheGlobals, evictState, store, req, tmr,
                   handed, lastOp, repeated, result, indexState, trieState>>

\* a step of the request thread
RequestStep(A) == A /\ UNCHANGED <<handed, repeated, indexState, trieState>>

CacheNext ==
    \/ RequestStep(Call("load_embeddings", "", 0))
    \/ \E query \in {"cat", "dog"}, limit \in {1, 50} :
            RequestStep(Call("search_images", query, limit))
    \/ RequestStep(ReqTouch)
    \/ RequestStep(ReqReturnCached)
    \/ RequestStep(ReqSelect)
    \/ RequestStep(ReqSetPaths)
    \/ RequestStep(ReqSetEmbeddings)
    \/ RequestStep(ReqSetLoaded)
    \/ RequestStep(ReqSetAccess)
    \/ RequestStep(ReqSchedule)
    \/ RequestStep(ReqReturnFresh)
    \/ RequestStep(ReqCheckLoaded)
    \/ RequestStep(ReqSearchTouch)
    \/ RequestStep(ReqRank)
    \/ TimerFire
    \/ TmrCheck
    \/ TmrDropEmbeddings
    \/ TmrDropPaths
    \/ TmrClearLoaded
    \/ TmrClearTimer
    \/ TmrReschedule
    \/ Tick

CacheInit ==
    /\ IndexStart /\ TrieStart /\ CallsStart
    /\ \E s \in Stores : CacheStart(s)

SpecCache == CacheInit /\ [][CacheNext]_vars

(***************************************************************************)
(* The eviction Timer under concurrent load_embeddings calls.  Each call   *)
(* runs in a thread of its own, each fired Timer runs unload_embeddings in *)
(* its own thread, and schedule_unload advances one statement at a time:   *)
(* every statement reads the global unload_timer anew.                     *)
(***************************************************************************)
\* the Timers started, not cancelled and not yet fired
Pending(objs) == {id \in TimerIds : objs[id].pc = "wait"}

\* the Timers whose unload_embeddings is running
Firing(objs) ==
    {id \in TimerIds : objs[id].pc \notin {"none", "new", "wait", "done"}}

\* a Timer that can no longer run and that unload_timer does not name is
\* collected; a finished one still named keeps only that it was started
Reclaim(objs, timer) ==
    [id \in TimerIds |->
        IF objs[id].pc \in {"new", "done"} /\ timer # <<id>> THEN NoTimer
        ELSE IF objs[id].pc = "done"
        THEN [started |-> TRUE, cancelled |-> FALSE, due |-> 0, pc |-> "done"]
        ELSE objs[id]]

\* the name the next Timer object gets
NewId(objs) ==
    CHOOSE id \in TimerIds :
        objs[id].pc = "none" /\ \A j \in TimerIds : j < id => objs[j].pc # "none"

\* Timer.cancel(): a waiting Timer never calls its function; cancelling one
\* that runs or has run changes nothing; one not started yet will return at
\* once when started
Cancel(obj) ==
    IF obj.pc = "wait" THEN [obj EXCEPT !.cancelled = TRUE, !.pc = "done"]
    ELSE IF obj.pc = "new" THEN [obj EXCEPT !.cancelled = TRUE]
    ELSE obj

\* Timer.start() at time: the thread waits UNLOAD_DELAY seconds, unless the
\* Timer was cancelled before
Start(obj, time) ==
    IF obj.cancelled THEN [obj EXCEPT !.started = TRUE, !.pc = "done"]
    ELSE [obj EXCEPT !.started = TRUE, !.due = time + UNLOAD_DELAY, !.pc = "wait"]

\* one statement of schedule_unload, lines 94 to 100, with the global
\* unload_timer being timer: the global and the Timers after it, and the line
\* the thread is at then, "return" after the last one, "raise" when the
\* statement raises (AttributeError on None, RuntimeError on a Timer that
\* was started already)
schedule_unload_line(pc, timer, objs, time) ==
    LET at(line) == [unload_timer |-> timer, pool |-> objs, pc |-> line]
    IN  CASE pc = "L94" -> at(IF timer # <<>> THEN "L95" ELSE "L98")
          [] pc = "L95" ->
                IF timer = <<>> THEN at("raise")
                ELSE [unload_timer |-> timer,
                      pool |-> [objs EXCEPT ![timer[1]] = Cancel(@)],
                      pc |-> "L98"]
          [] pc = "L98" ->
                [unload_timer |-> <<NewId(objs)>>,
                 pool |-> [objs EXCEPT ![NewId(objs)] = NewTimer],
                 pc |-> "L99"]
          [] pc = "L99" ->
                IF timer = <<>> THEN at("raise")
                ELSE IF objs[timer[1]].started THEN at("raise")
                ELSE at("L100")
          [] pc = "L100" ->
                IF timer = <<>> THEN at("raise")
                ELSE IF objs[timer[1]].started THEN at("raise")
                ELSE [unload_timer |-> timer,
                      pool |-> [objs EXCEPT ![timer[1]] = Start(@, time)],
                      pc |-> "return"]

ScheduleLines == {"L94", "L95", "L98", "L99", "L100"}

\* what no step of this model changes
evictFrame == <<indexState, trieState, timers, req, tmr, repeated>>

\* a thread of its own calls load_embeddings(); line 29 reads embeddings_loaded
LoadCall(t) ==
    /\ loaders[t].pc = "idle"
    /\ handed < MaxLoads
    /\ handed' = handed + 1
    /\ loaders' = [loaders EXCEPT
                      ![t] = [pc |-> IF embeddings_loaded THEN "L31" ELSE "L35"]]
    /\ UNCHANGED <<cacheGlobals, now, store, pool, lastOp, result, evictFrame>>

\* the call of thread t returns or raises
LoadFinish(t, outcome) ==
    /\ loaders' = [loaders EXCEPT ![t] = Idle]
    /\ result' = outcome
    /\ lastOp' = [op |-> "load_embeddings", thread |-> t]

\* thread t moves on to a line
LoadGoto(t, line) ==
    /\ loaders' = [loaders EXCEPT ![t].pc = line]
    /\ UNCHANGED <<lastOp, result>>

\* line 31: last_access_time = time.time()
LoadTouch(t) ==
    /\ loaders[t].pc = "L31"
    /\ last_access_time' = <<now>>
    /\ LoadGoto(t, "L32")
    /\ UNCHANGED <<image_embeddings, image_paths, embeddings_loaded, unload_timer,
                   now, store, pool, handed, evictFrame>>

\* line 32: return image_embeddings, image_paths
LoadReturnCached(t) ==
    /\ loaders[t].pc = "L32"
    /\ LoadFinish(t, Return(<<image_embeddings, image_paths>>))
    /\ UNCHANGED <<cacheGlobals, now, store, pool, handed, evictFrame>>

\* lines 35-44: connect, SELECT, None, None on no rows
LoadSelect(t) ==
    /\ loaders[t].pc = "L35"
    /\ store' = [store EXCEPT !.file = TRUE]
    /\ IF ~store.table THEN LoadFinish(t, Raised)
       ELSE IF store.rows = <<>> THEN LoadFinish(t, Return(<<<<>>, <<>>>>))
       ELSE LoadGoto(t, "L46")
    /\ UNCHANGED <<cacheGlobals, now, pool, handed, evictFrame>>

\* line 46: image_paths = [row[0] for row in rows]
LoadSetPaths(t) ==
    /\ loaders[t].pc = "L46"
    /\ image_paths' = <<[i \in 1..Len(store.rows) |-> store.rows[i].path]>>
    /\ LoadGoto(t, "L49")
    /\ UNCHANGED <<image_embeddings, embeddings_loaded, last_access_time,
                   unload_timer, now, store, pool, handed, evictFrame>>

\* lines 49-55: image_embeddings = the rows stacked, each divided by its norm
LoadSetEmbeddings(t) ==
    /\ loaders[t].pc = "L49"
    /\ image_embeddings' =
            <<[i \in 1..Len(store.rows) |-> Normalize(store.rows[i].embedding)]>>
    /\ LoadGoto(t, "L59")
    /\ UNCHANGED <<image_paths, embeddings_loaded, last_access_time,
                   unload_timer, now, store, pool, handed, evictFrame>>

\* line 59: embeddings_loaded = True
LoadSetLoaded(t) ==
    /\ loaders[t].pc = "L59"
    /\ embeddings_loaded' = TRUE
    /\ LoadGoto(t, "L60")
    /\ UNCHANGED <<image_embeddings, image_paths, last_access_time,
                   unload_timer, now, store, pool, handed, evictFrame>>

\* line 60: last_access_time = time.time(); line 64 enters schedule_unload
LoadSetAccess(t) ==
    /\ loaders[t].pc = "L60"
    /\ last_access_time' = <<now>>
    /\ LoadGoto(t, "L94")
    /\ UNCHANGED <<image_embeddings, image_paths, embeddings_loaded,
                   unload_timer, now, store, pool, handed, evictFrame>>

\* one statement of schedule_unload in thread t; an exception leaves
\* load_embeddings
LoadSchedule(t) ==
    /\ loaders[t].pc \in ScheduleLines
    /\ LET s == schedule_unload_line(loaders[t].pc, unload_timer, pool, now)
       IN  /\ unload_timer' = s.unload_timer
           /\ pool' = Reclaim(s.pool, s.unload_timer)
           /\ IF s.pc = "raise" THEN LoadFinish(t, Raised)
              ELSE LoadGoto(t, IF s.pc = "return" THEN "L66" ELSE s.pc)
    /\ UNCHANGED <<image_embeddings, image_paths, embeddings_loaded,
                   last_access_time, now, store, handed, evictFrame>>

\* line 66: return image_embeddings, image_paths
LoadReturnFresh(t) ==
    /\ loaders[t].pc = "L66"
    /\ LoadFinish(t, Return(<<image_embeddings, image_paths>>))
    /\ UNCHANGED <<cacheGlobals, now, store, pool, handed, evictFrame>>

\* a waiting Timer that is due fires: its thread enters unload_embeddings
Fire(id) ==
    /\ pool[id].pc = "wait"
    /\ pool[id].due <= now
    /\ pool' = [pool EXCEPT ![id].pc = "L76"]
    /\ UNCHANGED <<image_embeddings, image_paths, embeddings_loaded,
                   last_access_time, unload_timer, now, store, loaders, handed,
                   lastOp, result, evictFrame>>

\* lines 75-76 in the thread of Timer id: the idleness test
UnloadCheck(id) ==
    /\ pool[id].pc = "L76"
    /\ pool' = [pool EXCEPT ![id].pc =
                    IF /\ last_access_time # <<>>
                       /\ now - last_access_time[1] >= UNLOAD_DELAY
                    THEN "L78" ELSE "L94"]
    /\ UNCHANGED <<image_embeddings, image_paths, embeddings_loaded,
                   last_access_time, unload_timer, now, store, loaders, handed,
                   lastOp, result, evictFrame>>

\* line 78: image_embeddings = None
UnloadDropEmbeddings(id) ==
    /\ pool[id].pc = "L78"
    /\ image_embeddings' = <<>>
    /\ pool' = [pool EXCEPT ![id].pc = "L79"]
    /\ UNCHANGED <<image_paths, embeddings_loaded, last_access_time,
                   unload_timer, now, store, loaders, handed, lastOp, result,
                   evictFrame>>

\* line 79: image_paths = None
UnloadDropPaths(id) ==
    /\ pool[id].pc = "L79"
    /\ image_paths' = <<>>
    /\ pool' = [pool EXCEPT ![id].pc = "L80"]
    /\ UNCHANGED <<image_embeddings, embeddings_loaded, last_access_time,
                   unload_timer, now, store, loaders, handed, lastOp, result,
                   evictFrame>>

\* line 80: embeddings_loaded = False
UnloadClearLoaded(id) ==
    /\ pool[id].pc = "L80"
    /\ embeddings_loaded' = FALSE
    /\ pool' = [pool EXCEPT ![id].pc = "L81"]
    /\ UNCHANGED <<image_embeddings, image_paths, last_access_time,
                   unload_timer, now, store, loaders, handed, lastOp, result,
                   evictFrame>>

\* line 81: unload_timer = None, and the thread ends
UnloadClearTimer(id) ==
    /\ pool[id].pc = "L81"
    /\ unload_timer' = <<>>
    /\ pool' = Reclaim([pool EXCEPT ![id].pc = "done"], <<>>)
    /\ UNCHANGED <<image_embeddings, image_paths, embeddings_loaded,
                   last_access_time, now, store, loaders, handed, lastOp, result,
                   evictFrame>>

\* line 84: one statement of schedule_unload in the thread of Timer id; an
\* exception ends the thread, as the return does
UnloadSchedule(id) ==
    /\ pool[id].pc \in ScheduleLines
    /\ LET s == schedule_unload_line(pool[id].pc, unload_timer, pool, now)
           line == IF s.pc \in {"raise", "return"} THEN "done" ELSE s.pc
       IN  /\ unload_timer' = s.unload_timer
           /\ pool' = Reclaim([s.pool EXCEPT ![id].pc = line], s.unload_timer)
    /\ UNCHANGED <<image_embeddings, image_paths, embeddings_loaded,
                   last_access_time, now, store, loaders, handed, lastOp, result,
                   evictFrame>>

\* half an inactivity window passes while every thread is at rest and no
\* Timer is due
Pass ==
    /\ \A t \in Loaders : loaders[t].pc = "idle"
    /\ Firing(pool) = {}
    /\ \A id \in Pending(pool) : pool[id].due > now
    /\ now + UNLOAD_DELAY \div 2 <= Horizon
    /\ now' = now + UNLOAD_DELAY \div 2
    /\ UNCHANGED <<cacheGlobals, store, loaders, pool, handed, lastOp, result,
                   evictFrame>>

\* a step of the thread of call t after its call
LoadStep(t) ==
    \/ LoadTouch(t)
    \/ LoadReturnCached(t)
    \/ LoadSelect(t)
    \/ LoadSetPaths(t)
    \/ LoadSetEmbeddings(t)
    \/ LoadSetLoaded(t)
    \/ LoadSetAccess(t)
    \/ LoadSchedule(t)
    \/ LoadReturnFresh(t)

\* a step of the thread of Timer id
UnloadStep(id) ==
    \/ UnloadCheck(id)
    \/ UnloadDropEmbeddings(id)
    \/ UnloadDropPaths(id)
    \/ UnloadClearLoaded(id)
    \/ UnloadClearTimer(id)
    \/ UnloadSchedule(id)

EvictNext ==
    \/ \E t \in Loaders : LoadCall(t)
    \/ \E t \in Loaders : LoadStep(t)
    \/ \E id \in TimerIds : Fire(id)
    \/ \E id \in TimerIds : UnloadStep(id)
    \/ Pass

EvictInit == IndexStart /\ TrieStart /\ CallsStart /\ CacheStart(TwoImages)

\* every thread that can run does run in the end, a Timer that is due fires,
\* and time passes; nothing makes a caller call
EvictFair ==
    /\ \A t \in Loaders : WF_vars(LoadStep(t))
    /\ \A id \in TimerIds : WF_vars(Fire(id)) /\ WF_vars(UnloadStep(id))
    /\ WF_vars(Pass)

SpecEvict == EvictInit /\ [][EvictNext]_vars /\ EvictFair


(***************************************************************************)
(* Claims on the durable index.                                            *)
(***************************************************************************)
Range(q) == {q[i] : i \in 1..Len(q)}

\* every record the stored arrays hold, whatever the JSON shape around it
RowRecords(row) ==
    UNION {Range(row.files_json[j].value) : j \in 1..Len(row.files_json)}

StoredRecords == UNION {RowRecords(rows[i]) : i \in 1..Len(rows)}

\* C1: prefix monotonicity of search_db.  For non-empty queries p1 and p2,
\* p1 a strict prefix of p2, and the same categories, every record that
\* search_db(p2) returns is returned by search_db(p1) too, the limit being
\* large enough to cap neither result.
C1_PrefixMonotone ==
    \A p1 \in IndexQueries, p2 \in IndexQueries, categories \in SearchCategories :
        (p1 # <<>> /\ p1 # p2 /\ StartsWith(p2, p1)) =>
            LET r1 == search_db(db, rows, p1, DEFAULT_SEARCH_LIMIT, categories)
                r2 == search_db(db, rows, p2, DEFAULT_SEARCH_LIMIT, categories)
            IN  (~r2.raised /\ r2.value # <<>>) =>
                    (~r1.raised /\ Range(r2.value) \subseteq Range(r1.value))

\* C3: a record whose name holds a character outside the permitted set
\* (ASCII letters, digits, VALID_SYMBOLS) is in no row of the durable index
\* after build_search_index or index_to_file_search_db has run on it.
C3_RejectedAbsent ==
    \A rec \in StoredRecords : check_letters(rec.file_name)

\* C4: search idempotence.  A search_db call leaves the store as it was, and
\* a search_db call that repeats the call just before it, with the same
\* query, limit and categories, returns the same ordered list.
C4_SearchIdempotent ==
    [][lastOp'.op = "search_db" =>
          /\ db' = db /\ rows' = rows
          /\ (lastOp' = lastOp => result' = result)]_vars

\* C4 witness: a search_db call has repeated the one before it and returned
\* records
C4_Witness ==
    /\ lastOp.op = "search_db"
    /\ repeated
    /\ ~result.raised
    /\ result.value # <<>>

\* the example directory has just been crawled into an empty index: it holds
\* report.pdf, Report.PDF and a file with a name outside ASCII
ExampleCrawled ==
    /\ lastOp.op = "index_files"
    /\ lastOp.before = <<>>
    /\ Range(lastOp.files) = {ReportPdf, ReportPdfUpper, ResumeTxt}

\* what the example claims of the index, the row key left open
ExampleHolds(key) ==
    /\ \A rec \in StoredRecords : rec.file_name # ResumeTxt
    /\ Len(rows) = 1
    /\ rows[1].prefix = key
    /\ rows[1].file_category = "document"
    /\ Len(rows[1].files_json) = 2
    /\ LET found == api_search(db, rows, QReport, "normal", None, <<10>>)
       IN  /\ ~found.raised
           /\ Len(found.value) = 2
           /\ {found.value[i].path : i \in 1..2} =
                  {JoinPath(DocsDir, ReportPdf), JoinPath(DocsDir, ReportPdfUpper)}

\* C5 as stated: after index_files over the example directory the two report
\* entries are in a single row with key "reportpdf", category "document" and
\* a records array of 2 elements, the third file is not indexed, and
\* search("report", limit=10) returns both records.
C5_ExampleAsStated ==
    ExampleCrawled => ExampleHolds(<<"r", "e", "p", "o", "r", "t", "p", "d", "f">>)

\* C5 amended: the same, the row key being "reportdotpdf": the dot of the
\* name is mapped to its canonical key "dot", not dropped.
C5_Example ==
    ExampleCrawled =>
        ExampleHolds(<<"r", "e", "p", "o", "r", "t", "d", "o", "t", "p", "d", "f">>)

\* C5 witness: the example directory has been crawled and its row is stored
C5_Witness == ExampleCrawled /\ Len(rows) = 1 /\ result.value = <<"success", 2>>

\* C6: not-found is empty, not an error.  SearchAPI.search returns [] and
\* does not raise whenever no row key starts with the normalized query, also
\* when file_search.db does not exist or holds no table.
C6_NotFoundIsEmpty ==
    (/\ lastOp.op = "search"
     /\ \A i \in 1..Len(rows) :
           ~StartsWith(rows[i].prefix, NormalizedKey(clean_query(lastOp.query))))
        => result = Return(<<>>)

\* C6 witness: search("zz9") has run on an index that holds rows, none of
\* them starting with the key of zz9
C6_Witness ==
    /\ lastOp.op = "search"
    /\ lastOp.query = QZz9
    /\ rows # <<>>
    /\ result = Return(<<>>)
(***************************************************************************)
(* Claims on the trie.                                                     *)
(***************************************************************************)
\* C2: right after build_trees([r]) with r.file_name a non-empty name that
\* check_letters accepts, search_tree(r.file_name) returns a list holding r,
\* whatever documents TREES_DIR holds
C2_TrieRoundTrip ==
    (/\ lastOp.op = "build_trees"
     /\ Len(lastOp.file_list) = 1
     /\ lastOp.file_list[1].file_name # <<>>
     /\ check_letters(lastOp.file_list[1].file_name))
    => LET r == lastOp.file_list[1]
           found == search_tree(trees, disk, r.file_name).result
       IN  ~found.raised /\ r \in Range(found.value)

(***************************************************************************)
(* Claims on the image embedding cache.                                    *)
(***************************************************************************)
\* both threads at rest and no Timer due: nothing is left to run at this time
Settled == req.pc = "idle" /\ tmr.pc = "idle" /\ \A due \in timers : due > now

\* C7: once UNLOAD_DELAY seconds have passed since the most recent access
\* with no call since, and all that is due at that time has run,
\* is_embeddings_loaded() is false
C7_IdleEviction ==
    (/\ Settled
     /\ last_access_time # <<>>
     /\ now - last_access_time[1] >= UNLOAD_DELAY)
    => ~is_embeddings_loaded

\* C8: the cache is never unloaded at a moment when less than UNLOAD_DELAY
\* seconds have passed since the most recent access
C8_AccessResetsWindow ==
    [][(embeddings_loaded /\ ~embeddings_loaded')
       => (/\ last_access_time # <<>>
           /\ now - last_access_time[1] >= UNLOAD_DELAY)]_vars

\* C9: search_images over an embeddings.db with no rows, or with no
\* embeddings table, returns [] without raising and leaves
\* is_embeddings_loaded() false
C9_EmptyOrMissingStore ==
    (/\ lastOp.op = "search_images"
     /\ req.pc = "idle"
     /\ (~store.table \/ store.rows = <<>>))
    => (result = Return(<<>>) /\ ~is_embeddings_loaded)

\* the request thread and the Timer thread are never both inside their
\* handlers
CacheExclusive == ~(req.pc # "idle" /\ tmr.pc # "idle")

\* a search_images call over a store with rows, asked for one path or more,
\* returns one path or more
SearchSeesMatrix ==
    (/\ lastOp.op = "search_images"
     /\ store.rows # <<>>
     /\ lastOp.limit >= 1)
    => (~result.raised /\ result.value # <<>>)

\* C10: the handlers of the request thread and of the Timer thread never
\* interleave, and so a search_images call over a store with rows does not
\* return [] because of an eviction
C10_CacheMutualExclusion == CacheExclusive /\ SearchSeesMatrix

\* C11: no partial residency.  In every state, the states in the middle of a
\* load or of an eviction included, embeddings_loaded is true exactly when
\* image_embeddings and image_paths are both present, and then the matrix
\* has one row for each path.
C11_NoPartialResidency ==
    /\ embeddings_loaded <=> (image_embeddings # <<>> /\ image_paths # <<>>)
    /\ embeddings_loaded => Len(image_embeddings[1]) = Len(image_paths[1])

(***************************************************************************)
(* Claims on the searches.                                                 *)
(***************************************************************************)
\* C12: search never raises.  search_db and search_tree return a list for
\* every query, also for a query holding a character with no canonical key
\* and when the store is missing.
C12_SearchNeverRaises ==
    lastOp.op \in {"search_db", "search_tree"} => ~result.raised

(***************************************************************************)
(* Claims on the writers of the durable index.                             *)
(***************************************************************************)
\* C13: the indexing triggers are idempotent.  An index_files run that
\* follows an index_files run over the same directory listing leaves
\* file_index, rows and record arrays, as the first run left it.
C13_IndexingIdempotent ==
    [][(/\ lastOp.op = "index_files"
        /\ lastOp'.op = "index_files"
        /\ lastOp'.files = lastOp.files)
       => rows' = rows]_vars

\* the records a stored array holds: its objects and the objects of its
\* nested arrays, in order
Records(files_json) ==
    Concat([j \in 1..Len(files_json) |->
              IF files_json[j].kind \in {"object", "array"}
              THEN files_json[j].value ELSE <<>>])

\* the stored array of the row with the key, empty when there is no such row
ArrayOf(table, key) ==
    Concat([i \in 1..Len(table) |->
              IF table[i].prefix = key THEN table[i].files_json ELSE <<>>])

\* how many times a sequence holds a record with the path
Times(records, path) ==
    Cardinality({i \in 1..Len(records) : records[i].file_path = path})

\* C14: repeated incremental indexing.  A successful index_to_file_search_db
\* call on a record adds one occurrence of it to the row of its name and one
\* record with its path to what search_db(name) returns: n calls from an
\* index with no row for the name give n occurrences and n records found.
C14_RepeatedAutoIndex ==
    (lastOp.op = "index_to_file_search_db" /\ result = Return(<<TRUE>>)) =>
        LET p == lastOp.file_data
            key == NormalizedKey(p.file_name)
            Held(table) == Times(Records(ArrayOf(table, key)), p.file_path)
            Found(table) ==
                Times(search_db("ready", table, p.file_name, DEFAULT_SEARCH_LIMIT,
                                <<>>).value, p.file_path)
            n == Held(lastOp.before) + 1
        IN  Found(lastOp.before) = n - 1 => (Held(rows) = n /\ Found(rows) = n)

\* C15: after auto_index on an existing path below a root, with file_index in
\* place, the path was upserted into file_index exactly when a crawl by
\* collect_entries from that root collects it.
C15_SameSkipRules ==
    (/\ lastOp.op = "auto_index"
     /\ lastOp.db = "ready"
     /\ lastOp.path[Len(lastOp.path)].exists) =>
        ((rows # lastOp.before) <=> walk_collects(lastOp.path))

\* the listed directory is the path or one of the directories above it
Under(file_path, listed) ==
    \E i \in 1..Len(listed) :
        /\ Len(listed[i]) <= Len(file_path)
        /\ \A k \in 1..Len(listed[i]) : file_path[k] = listed[i][k]

\* C16: auto_index changes image_embeddings.db only for a file with an image
\* extension below a directory of image_paths, and text_embeddings.db only
\* for a file with a document extension below a directory of
\* document_paths; whatever the extension and the lists, a call that gets to
\* the writes leaves file_index as index_to_file_search_db leaves it.
C16_EmbeddingWritesGated ==
    lastOp.op = "auto_index" =>
        LET path == lastOp.path
            entry == path[Len(path)]
            ext == Lower(SplitExt(entry.name))
            file_type == IF entry.isdir THEN Folder ELSE AutoType(entry.name)
            upsert == index_to_file_search_db(lastOp.db, lastOp.before,
                          FileData(entry.name, PathName(path), file_type))
        IN  /\ image_db # lastOp.image_db =>
                /\ ~entry.isdir
                /\ ext \in VALID_IMAGE_EXTENSIONS
                /\ Under(PathName(path), lastOp.indexed_paths.image_paths)
            /\ text_db # lastOp.text_db =>
                /\ ~entry.isdir
                /\ ext \in VALID_DOCUMENT_EXTENSIONS
                /\ Under(PathName(path), lastOp.indexed_paths.document_paths)
            /\ (entry.exists /\ ~should_skip(path)) =>
                (db = upsert.db /\ rows = upsert.rows)

\* a document below a listed directory has just been written to
\* text_embeddings.db, and file_index has its record
C16_Witness ==
    /\ lastOp.op = "auto_index"
    /\ Len(text_db.rows) > Len(lastOp.text_db.rows)
    /\ rows # lastOp.before

\* every record a table holds, row after row
Held(table) ==
    Records(Concat([i \in 1..Len(table) |-> table[i].files_json]))

\* how many times a sequence holds a record
Occurrences(records, r) == Cardinality({i \in 1..Len(records) : records[i] = r})

\* the table holds what the table before held and, on top, one occurrence
\* for each occurrence in written, and nothing else
HoldsBeforeAnd(table, before, written) ==
    \A r \in Range(Held(table)) \cup Range(Held(before)) \cup Range(written) :
        Occurrences(Held(table), r)
            = Occurrences(Held(before), r) + Occurrences(written, r)

\* C17: a failing full index run.  When the scan raises, or the store raises
\* on a batch, index_files returns status error and count 0 instead of
\* raising; the store holds what it held before the run and every record of
\* the batches committed before the error, and no record of the batch the
\* error came in.  The same holds of the batches of build_search_index.
C17_FailedRunKeepsCommitted ==
    /\ (lastOp.op = "index_files" /\ lastOp.fault # Sound) =>
        LET entries == collect_entries(DocsDir, lastOp.files)
            failed == lastOp.fault.scan \/ entries # <<>>
        IN  failed =>
                /\ result = Return(<<"error", 0>>)
                /\ HoldsBeforeAnd(rows, lastOp.before, <<>>)
    /\ (lastOp.op = "build_search_index" /\ lastOp.commits # NoFault) =>
        LET n == Len(lastOp.file_list)
            taken == lastOp.commits[1] * lastOp.batch_size
        IN  taken < n =>
                /\ result = Raised
                /\ HoldsBeforeAnd(rows, lastOp.before,
                                  SubSeq(lastOp.file_list, 1, taken))

\* a full index run has failed in its only batch on a store that held the
\* records of an earlier run, and holds them still
C17_Witness ==
    /\ lastOp.op = "index_files"
    /\ lastOp.fault = [scan |-> FALSE, commits |-> <<0>>]
    /\ result = Return(<<"error", 0>>)
    /\ lastOp.before # <<>>
    /\ rows = lastOp.before

\* C18: progress reporting of index_files.  Every call of progress_callback
\* during a run passes one of the stage names scanning, building, saving,
\* complete, error, and a run that returns success has reported scanning,
\* then building, then complete.
C18_ProgressStages ==
    lastOp.op = "index_files" =>
        /\ \A i \in 1..Len(progress) :
            /\ progress[i].stage # <<>>
            /\ progress[i].stage[1]
                   \in {"scanning", "building", "saving", "complete", "error"}
        /\ result.value[1] = "success" =>
            [i \in 1..Len(progress) |-> progress[i].stage]
                = <<(<<"scanning">>), <<"building">>, <<"complete">>>>

\* the records of a list with an accepted name: not empty, every character
\* an ASCII letter, a digit or a permitted symbol
Accepted(file_list) ==
    SelectSeq(file_list,
              LAMBDA r : r.file_name # <<>> /\ check_letters(r.file_name))

\* C19: one row for each key.  A build_search_index run, whatever its
\* batch_size, leaves file_index with one row for each normalized key of the
\* accepted names handed to the runs so far, and the stored array of a row,
\* flattened, is what it was before the run followed by the accepted records
\* of the run with that key, one for each occurrence, in the order handed.
C19_OneRowPerKey ==
    (lastOp.op = "build_search_index" /\ lastOp.commits = NoFault) =>
        LET before == lastOp.before
            accepted == Accepted(lastOp.file_list)
            keys == {NormalizedKey(accepted[i].file_name) : i \in 1..Len(accepted)}
            With(key) ==
                SelectSeq(accepted, LAMBDA r : NormalizedKey(r.file_name) = key)
        IN  /\ \A i, j \in 1..Len(rows) : rows[i].prefix = rows[j].prefix => i = j
            /\ {rows[i].prefix : i \in 1..Len(rows)}
                   = {before[i].prefix : i \in 1..Len(before)} \cup keys
            /\ \A i \in 1..Len(rows) :
                   Records(rows[i].files_json)
                       = Records(ArrayOf(before, rows[i].prefix)) \o With(rows[i].prefix)

\* the occurrences stored in the rows whose key starts with the normalized
\* query and whose category passes the filter: one element of the stored
\* array for each upsert
Matching(table, query, categories) ==
    Concat([i \in 1..Len(table) |->
              IF /\ StartsWith(table[i].prefix, NormalizedKey(query))
                 /\ (categories = <<>> \/ table[i].file_category \in Range(categories))
              THEN table[i].files_json ELSE <<>>])

\* C20: limit semantics.  On an index in place, search_db(q, limit=L,
\* categories) with L >= 1 returns min(L, M) records, M being the number of
\* occurrences stored in the rows that match q and pass the category filter.
C20_LimitSemantics ==
    db = "ready" =>
        \A query \in IndexQueries, limit \in SearchLimits,
           categories \in SearchCategories :
            (query # <<>> /\ NormalizedKey(query) # Raise) =>
                LET found == search_db(db, rows, query, limit, categories)
                    M == Len(Matching(rows, query, categories))
                IN  /\ ~found.raised
                    /\ Len(found.value) = IF limit <= M THEN limit ELSE M

\* C21 as stated: get_value gives a key to every letter, digit and
\* permitted symbol, and no two distinct characters have the same key.
C21_KeysDistinct ==
    (lastOp.op = "get_value" /\ (IsAlpha(lastOp.ch) \/ lastOp.ch \in Digits
                                  \/ lastOp.ch \in VALID_SYMBOLS)) =>
        /\ ~result.raised
        /\ \A other \in KeyChars :
               other # lastOp.ch => get_value(other) # result.value

\* C21: get_value gives a key to every letter, digit and permitted symbol,
\* and two characters have the same key only when they are the same character
\* once lowered.
C21_KeysDistinctUpToCase ==
    (lastOp.op = "get_value" /\ (IsAlpha(lastOp.ch) \/ lastOp.ch \in Digits
                                  \/ lastOp.ch \in VALID_SYMBOLS)) =>
        /\ ~result.raised
        /\ \A other \in KeyChars :
               LowerChar(other) # LowerChar(lastOp.ch)
                   => get_value(other) # result.value

\* get_value has given a capital letter the key of its lower-case letter,
\* and a permitted symbol its name
C21_Witness ==
    /\ lastOp.op = "get_value"
    /\ \/ lastOp.ch = "A" /\ result = Return(<<"a">>)
       \/ lastOp.ch = "@" /\ result = Return(<<"a", "t">>)

\* C22: clean_query(s), None and the empty string included, returns the
\* characters of s that are ASCII letters, digits or permitted symbols, in
\* order and lowered; get_value raises on none of them; and clean_query of
\* the result is the result.
C22_CleanQuery ==
    lastOp.op = "clean_query" =>
        LET s == IF lastOp.arg = <<>> THEN <<>> ELSE lastOp.arg[1]
            kept == SelectSeq(s, LAMBDA ch : ch \in AsciiLower \cup AsciiUpper
                                                  \cup Digits \cup VALID_SYMBOLS)
            out == result.value
        IN  /\ ~result.raised
            /\ out = [i \in 1..Len(kept) |->
                         IF kept[i] \in AsciiUpper THEN AsciiToLower[kept[i]]
                         ELSE kept[i]]
            /\ \A i \in 1..Len(out) : get_value(out[i]) # Raise
            /\ clean_query(out) = out

\* clean_query has dropped a character and lowered another
C22_Witness ==
    /\ lastOp.op = "clean_query"
    /\ lastOp.arg = <<(<<"*", "A">>)>>
    /\ result = Return(<<"a">>)

\* C23: a rejected record does not abort a build.  A build_search_index run
\* handed a record whose name fails the character validation returns
\* without raising, and has added to file_index the other records of its
\* input, one occurrence for each, and not the rejected one.
C23_RejectedSkipped ==
    (lastOp.op = "build_search_index" /\ lastOp.commits = NoFault) =>
        /\ ~result.raised
        /\ HoldsBeforeAnd(rows, lastOp.before, Accepted(lastOp.file_list))

\* C24: trie prefix query.  After build_trees(records) from empty trees, with
\* no document persisted, search_tree(p) for a non-empty prefix p of the name
\* of a record, a prefix of one character included, returns the accepted
\* records whose name starts with p, case ignored, in the order of the input,
\* and no other record.
C24_TriePrefixQuery ==
    (/\ lastOp.op = "build_trees"
     /\ lastOp.empty
     /\ ~result.raised
     /\ \A name \in all_names : disk[name] = <<>>) =>
        LET accepted == Accepted(lastOp.file_list)
            prefixes == UNION {{SubSeq(accepted[i].file_name, 1, n) :
                                   n \in 1..Len(accepted[i].file_name)} :
                               i \in 1..Len(accepted)}
        IN  \A prefix \in prefixes :
                LET found == search_tree(trees, disk, prefix).result
                    meant == SelectSeq(accepted,
                                 LAMBDA r : StartsWith(Lower(r.file_name), Lower(prefix)))
                IN  ~found.raised /\ found.value = meant

\* every record the table holds, one entry for each occurrence, whatever the
\* JSON shape around it
AllHeld(table) ==
    Concat([i \in 1..Len(table) |->
              Concat([j \in 1..Len(table[i].files_json) |->
                        table[i].files_json[j].value])])

\* the table holds what the table before held and one occurrence more for
\* each occurrence in written
KeepsAndAdds(table, before, written) ==
    \A r \in Range(AllHeld(table)) \cup Range(AllHeld(before)) \cup Range(written) :
        Occurrences(AllHeld(table), r)
            = Occurrences(AllHeld(before), r) + Occurrences(written, r)

\* C25: read-committed visibility.  While build_search_index runs, a
\* search_db call returns no record of a batch that is not committed, and
\* returns every record of the batches committed before it whose key starts
\* with its prefix, unless it returns limit records; a commit of the builder
\* and a successful index_to_file_search_db each keep every occurrence the
\* table held and add their own.
C25_ReadCommitted ==
    /\ (lastOp.op = "search_db" /\ builder # Idle) =>
            /\ ~result.raised
            /\ \A r \in Range(BatchRecords(builder.batch)) :
                    r \in Range(result.value) => r \in Range(AllHeld(rows))
            /\ \A r \in Range(builder.committed) :
                    StartsWith(NormalizedKey(r.file_name), NormalizedKey(lastOp.query)) =>
                        \/ r \in Range(result.value)
                        \/ Len(result.value) >= lastOp.limit
    /\ lastOp.op = "commit" => KeepsAndAdds(rows, lastOp.before, lastOp.batch)
    /\ (lastOp.op = "index_to_file_search_db" /\ result = Return(<<TRUE>>)) =>
            KeepsAndAdds(rows, lastOp.before, <<lastOp.file_data>>)

\* the category lists of a filtered search
FilterLists == {<<"file">>, <<"folder">>, <<"file", "folder">>}

\* C26: the category filter is exact for each record.  On an index in place,
\* whatever the writers have stored, search_db(q, categories=C) with the
\* default limit returns the stored records whose key starts with the key of
\* q and whose own file_type is of a category in C, and no other record.
C26_FilterExact ==
    db = "ready" =>
        \A query \in SharedQueries, categories \in FilterLists :
            LET found == search_db(db, rows, query, DEFAULT_SEARCH_LIMIT, categories)
                meant == {r \in Range(AllHeld(rows)) :
                            /\ StartsWith(NormalizedKey(r.file_name),
                                          NormalizedKey(query))
                            /\ get_file_category(r.file_type) \in Range(categories)}
            IN  ~found.raised /\ Range(found.value) = meant

\* C27: no false positive from the concatenation of keys.  Every record
\* search_db(q) returns has a name whose lowercase form starts with the
\* lowercase form of q.
C27_NoFalsePositives ==
    (lastOp.op = "search_db" /\ ~result.raised) =>
        \A r \in Range(result.value) :
            StartsWith(Lower(r.file_name), Lower(lastOp.query))

\* C28: round trip of the trie through its documents.  After
\* build_trees(records) on empty trees with nothing persisted, save_trees()
\* and clear_trees() leave search_tree(p) returning what it returned before
\* them, for every prefix p under a root that received a record.
C28_PersistRoundTrip ==
    (/\ lastOp.op = "build_trees"
     /\ lastOp.empty
     /\ ~result.raised
     /\ \A name \in all_names : disk[name] = <<>>) =>
        LET saved == save_trees(trees, disk)
            roots == {NormalizedKey(<<r.file_name[1]>>) :
                         r \in Range(Accepted(lastOp.file_list))}
        IN  \A prefix \in TriePrefixes :
                (prefix # <<>> /\ NormalizedKey(<<prefix[1]>>) \in roots) =>
                    search_tree(clear_trees, saved, prefix).result
                        = search_tree(trees, disk, prefix).result

\* C29: incremental image embeddings reach the search.  After auto_index on
\* an image that exists, is not skipped, has MIN_IMAGE_SIZE_KB at least and
\* lies below a directory of image_paths, the path of the image is among the
\* rows load_embeddings reads from its embeddings.db when it next loads.
C29_ImageReachesSearch ==
    lastOp.op = "auto_index" =>
        LET path == lastOp.path
            entry == path[Len(path)]
            ext == Lower(SplitExt(entry.name))
        IN  (/\ entry.exists
             /\ ~should_skip(path)
             /\ ~entry.isdir
             /\ ext \in VALID_IMAGE_EXTENSIONS
             /\ entry.kb >= MIN_IMAGE_SIZE_KB
             /\ Under(PathName(path), lastOp.indexed_paths.image_paths)) =>
                /\ store.table
                /\ \E i \in 1..Len(store.rows) : store.rows[i].path = PathName(path)

\* every thread of the concurrent cache model is at rest
Quiet == (\A t \in Loaders : loaders[t].pc = "idle") /\ Firing(pool) = {}

\* the cache is loaded, no call is left to come, and two inactivity windows
\* fit into what is left of the clock
LoadedForGood ==
    /\ embeddings_loaded
    /\ handed = MaxLoads
    /\ now + 2 * UNLOAD_DELAY <= Horizon

\* C30: eventual eviction.  Once the cache is loaded and no further call is
\* made, the cache gets unloaded in the end, also when loads and the Timer
\* callback interleave; whenever the cache is loaded and every thread is at
\* rest an eviction Timer is pending, and at most one Timer is pending at any
\* time.
C30_EventualEviction ==
    /\ [](Cardinality(Pending(pool)) <= 1)
    /\ []((embeddings_loaded /\ Quiet) => Pending(pool) # {})
    /\ LoadedForGood ~> ~embeddings_loaded

====
